---------------------------- MODULE Spec2Model ----------------------------
(***************************************************************************)
(* Coordination protocol of the ibce-bots instances (src/main.py): the     *)
(* bot-to-bot envelopes on the COM channel, the ComState state machine     *)
(* (CONNECT / CONNECT_ACK / LET_MASTER / ENSURE_DISPLAY / SEND_DB /         *)
(* SEND_WORKSPACE), the MessageHub and the TimedCallback timers.            *)
(*                                                                         *)
(* Text (payloads, return names) is a sequence of one-character strings,   *)
(* so that formatting and parsing are computed, not assumed.               *)
(* Every handler is a pure operator from the instance's ComState to a      *)
(* result record [s, out, err, started, reset]; the actions apply the      *)
(* operators. A handler runs atomically, except the master path of         *)
(* ensure_display, which is split at its `await func(...)`; a handler      *)
(* that is overtaken at an await is an envelope handled out of order.      *)
(*                                                                         *)
(* Spec is the deployment of two instances from their boot on, with one    *)
(* user command; SpecElection is the same deployment without commands;     *)
(* SpecFollower starts from a master and its follower long after they      *)
(* connected; SpecJoin is a newcomer connecting to a running master;       *)
(* SpecCascade is the master and its follower with two user commands;      *)
(* SpecSync is a newcomer connecting to a master that holds a workspace;   *)
(* SpecRaise is SpecFollower with actions that may raise; SpecHub is an    *)
(* instance whose MessageHub ages over hours; SpecLobby is a master        *)
(* running its lobby refresh tasks under _update_lobbies_lock;             *)
(* SpecJoining is SpecJoin without crashes, under weak fairness of the     *)
(* event loop; SpecPromote is Spec with self_promote split at its send;    *)
(* SpecRefresh is a newcomer that joins while its own lobby refresh tasks  *)
(* run; SpecDrain is two followers of a master that has stopped.           *)
(* Envelopes from a third peer are handled in the properties that range    *)
(* over every envelope an instance may be sent.                            *)
(*                                                                         *)
(* The workspace is the set of module globals that exist, a snapshot is    *)
(* the object send_workspace pickles, and update_workspace assigns the     *)
(* globals in the order of the source, against a platform that may or may  *)
(* not resolve the ids of the snapshot. The files of an instance (the DB   *)
(* file and its archive) are part of its state record.                     *)
(*                                                                         *)
(* A callback whose sleep is over and whose ensure_display awaits its      *)
(* action is still the task of its TimedCallback: cancelling it cancels    *)
(* the awaited action.                                                     *)
(***************************************************************************)
EXTENDS Integers, Sequences, FiniteSets, TLC

-----------------------------------------------------------------------------
(* Bounds of the model *)

\* Last instant of the clock (seconds).
MaxTime == 5
\* Length bound of ComState.callbacks.
MaxCallbacks == 3
\* How many unread envelopes an instance may handle ahead of an older one.
MaxReorder == 1
\* Instances that may crash.
MaxCrash == 1

\* The deployed instances (BOT_ID of each).
Ids == {1, 2}
\* The ids an envelope on the COM channel may carry: the deployed instances
\* and one more peer.
Peers == {1, 2, 3}

-----------------------------------------------------------------------------
(* Program constants *)

\* to_id of a broadcast envelope.
BROADCAST == -1
\* VERSION = get_source_version(): the same deployed revision on every instance.
VERSION == 5
\* Delay of the self-promotion timer started by connect().
PROMOTE_DELAY == 3
\* MessageHub.MAX_AGE_SECONDS = 5 * 60
MAX_AGE_SECONDS == 300

\* MessageType values.
CONNECT == "connect"
CONNECT_ACK == "connectack"
LET_MASTER == "letmaster"
ENSURE_DISPLAY == "ensure"
SEND_DB == "senddb"
SEND_DB_ACK == "senddback"
SEND_WORKSPACE == "sendws"
SEND_WORKSPACE_ACK == "sendwsack"

MessageType ==
    {CONNECT, CONNECT_ACK, LET_MASTER, ENSURE_DISPLAY,
     SEND_DB, SEND_DB_ACK, SEND_WORKSPACE, SEND_WORKSPACE_ACK}

-----------------------------------------------------------------------------
(* Text *)

Digits == <<"0", "1", "2", "3", "4", "5", "6", "7", "8", "9">>

IsDigit(c) == \E d \in 1..10 : Digits[d] = c

DigitValue(c) == (CHOOSE d \in 1..10 : Digits[d] = c) - 1

\* str(n) of a non-negative integer.
RECURSIVE StrNat(_)
StrNat(n) ==
    IF n < 10 THEN <<Digits[n + 1]>>
    ELSE StrNat(n \div 10) \o <<Digits[(n % 10) + 1]>>

\* str(n) of an integer.
StrInt(n) == IF n < 0 THEN <<"-">> \o StrNat(0 - n) ELSE StrNat(n)

RECURSIVE NatOfDigits(_, _)
NatOfDigits(s, acc) ==
    IF s = <<>> THEN acc
    ELSE NatOfDigits(Tail(s), acc * 10 + DigitValue(Head(s)))

AllDigits(s) == Len(s) > 0 /\ \A k \in 1..Len(s) : IsDigit(s[k])

\* int(text): [ok, v]; ok = FALSE is Python's ValueError.
ParseInt(s) ==
    IF AllDigits(s) THEN [ok |-> TRUE, v |-> NatOfDigits(s, 0)]
    ELSE IF Len(s) > 1 /\ Head(s) \in {"-", "+"} /\ AllDigits(Tail(s))
         THEN [ok |-> TRUE,
               v |-> IF Head(s) = "-" THEN 0 - NatOfDigits(Tail(s), 0)
                     ELSE NatOfDigits(Tail(s), 0)]
         ELSE [ok |-> FALSE, v |-> 0]

\* text.split(sep): the fields of s between occurrences of the character sep.
RECURSIVE SplitFrom(_, _, _, _)
SplitFrom(s, sep, k, cur) ==
    IF k > Len(s) THEN <<cur>>
    ELSE IF s[k] = sep THEN <<cur>> \o SplitFrom(s, sep, k + 1, <<>>)
         ELSE SplitFrom(s, sep, k + 1, Append(cur, s[k]))

Split(s, sep) == SplitFrom(s, sep, 1, <<>>)

-----------------------------------------------------------------------------
(* Values an action returns and the workspace globals hold *)

NoneValue == [t |-> "none"]
IntValue(n) == [t |-> "int", n |-> n]
StrValue(s) == [t |-> "str", s |-> s]
FloatValue(s) == [t |-> "float", s |-> s]
\* A result that is neither float, int nor str (a discord.Message, say).
ObjValue == [t |-> "obj"]

\* float(text) succeeds on digits with at most one point (the forms str(float)
\* of a finite positive float without exponent takes).
IsFloatText(s) ==
    LET parts == Split(s, ".")
    IN  /\ Len(parts) \in {1, 2}
        /\ \A k \in 1..Len(parts) : parts[k] = <<>> \/ AllDigits(parts[k])
        /\ \E k \in 1..Len(parts) : parts[k] # <<>>

\* parse_ensure_display_value(message): [key, value, err].
parse_ensure_display_value(message) ==
    LET kv == Split(message, "=")
    IN  IF Len(kv) < 2
        THEN [key |-> kv[1], value |-> NoneValue, err |-> "IndexError"]
        ELSE IF Len(kv[2]) = 0
        THEN [key |-> kv[1], value |-> NoneValue, err |-> ""]
        ELSE LET data_type == kv[2][1]
                 value_str == Tail(kv[2])
             IN  CASE data_type = "f" ->
                        IF IsFloatText(value_str)
                        THEN [key |-> kv[1], value |-> FloatValue(value_str), err |-> ""]
                        ELSE [key |-> kv[1], value |-> NoneValue, err |-> "ValueError"]
                   [] data_type = "i" ->
                        IF ParseInt(value_str).ok
                        THEN [key |-> kv[1], value |-> IntValue(ParseInt(value_str).v),
                              err |-> ""]
                        ELSE [key |-> kv[1], value |-> NoneValue, err |-> "ValueError"]
                   [] data_type = "s" ->
                        [key |-> kv[1], value |-> StrValue(value_str), err |-> ""]
                   [] OTHER ->
                        [key |-> kv[1], value |-> NoneValue, err |-> "ValueError"]

\* globals()[key] = value
SetGlobal(g, key, value) ==
    [k \in DOMAIN g \cup {key} |-> IF k = key THEN value ELSE g[k]]

-----------------------------------------------------------------------------
(* Optional values: None is <<>>, a given value x is <<x>> *)

None == <<>>
Some(x) == <<x>>

\* max(set) of a non-empty set of integers.
Max(S) == CHOOSE x \in S : \A y \in S : y <= x

-----------------------------------------------------------------------------
(* The workspace: the module globals send_workspace reads and               *)
(* update_workspace writes                                                  *)

\* Values of the workspace globals: a list of lobby ids, a channel, a member,
\* a list of members (by id), a flag. A time is an IntValue.
ListValue(items) == [t |-> "list", items |-> items]
ChannelValue(id) == [t |-> "channel", id |-> id]
MemberValue(id) == [t |-> "member", id |-> id]
MembersValue(items) == [t |-> "members", items |-> items]
BoolValue(b) == [t |-> "bool", b |-> b]

\* Names of the workspace globals. A name no payload carries is written as one
\* symbol; _okib_message_id, the return name of the okib call, is written x,
\* and "lobbymsg", the mark of the names the lobby messages are stored under,
\* is written l.
OPEN_LOBBIES == <<"_open_lobbies">>
OKIB_CHANNEL == <<"_okib_channel">>
OKIB_MESSAGE_ID == <<"x">>
LIST_CONTENT == <<"_list_content">>
OKIB_MEMBERS == <<"_okib_members">>
LATERIB_MEMBERS == <<"_laterib_members">>
NOIB_MEMBERS == <<"_noib_members">>
GATHERER == <<"_gatherer">>
GATHERED == <<"_gathered">>
GATHER_TIME == <<"_gather_time">>
LOBBYMSG == <<"l">>

\* The globals send_workspace reads after _open_lobbies, in the order it
\* reads them.
WorkspaceReads ==
    <<OKIB_CHANNEL, OKIB_MESSAGE_ID, LIST_CONTENT, OKIB_MEMBERS, LATERIB_MEMBERS,
      NOIB_MEMBERS, GATHERER, GATHERED, GATHER_TIME>>

\* The globals the module defines when it is loaded: _open_lobbies = []; the
\* assignments of the other workspace globals are commented out in the source.
ModuleGlobals == [k \in {OPEN_LOBBIES} |-> ListValue(<<>>)]

\* sub in text
Contains(text, sub) ==
    \E k \in 0..(Len(text) - Len(sub)) : SubSeq(text, k + 1, k + Len(sub)) = sub

\* for key, value in globals().items(): if "lobbymsg" in key: ...
LobbyMessageIds(g) ==
    [k \in {key \in DOMAIN g : Contains(key, LOBBYMSG)} |-> g[k]]

\* A faulty send_workspace that leaves the lobby message-id bindings out of
\* the snapshot.
WorkspaceObjNoBindings(g) ==
    IF \E k \in 1..Len(WorkspaceReads) : WorkspaceReads[k] \notin DOMAIN g
    THEN [obj |-> <<>>, err |-> "NameError"]
    ELSE [obj |->
            [open_lobbies |-> g[OPEN_LOBBIES].items,
             lobby_message_ids |-> [k \in {} |-> NoneValue],
             okib_channel_id |-> IF g[OKIB_CHANNEL].t = "none" THEN None
                                 ELSE Some(g[OKIB_CHANNEL].id),
             okib_message_id |-> g[OKIB_MESSAGE_ID],
             list_content |-> g[LIST_CONTENT],
             okib_member_ids |-> g[OKIB_MEMBERS].items,
             laterib_member_ids |-> g[LATERIB_MEMBERS].items,
             noib_member_ids |-> g[NOIB_MEMBERS].items,
             gatherer_id |-> IF g[GATHERER].t = "none" THEN None
                             ELSE Some(g[GATHERER].id),
             gathered |-> g[GATHERED],
             gather_time |-> g[GATHER_TIME]],
          err |-> ""]

\* The workspace_obj send_workspace builds from the globals g: [obj, err].
\* Reading a global that has never been assigned raises NameError.
WorkspaceObj(g) ==
    IF \E k \in 1..Len(WorkspaceReads) : WorkspaceReads[k] \notin DOMAIN g
    THEN [obj |-> <<>>, err |-> "NameError"]
    ELSE [obj |->
            [open_lobbies |-> g[OPEN_LOBBIES].items,
             lobby_message_ids |-> LobbyMessageIds(g),
             okib_channel_id |-> IF g[OKIB_CHANNEL].t = "none" THEN None
                                 ELSE Some(g[OKIB_CHANNEL].id),
             okib_message_id |-> g[OKIB_MESSAGE_ID],
             list_content |-> g[LIST_CONTENT],
             okib_member_ids |-> g[OKIB_MEMBERS].items,
             laterib_member_ids |-> g[LATERIB_MEMBERS].items,
             noib_member_ids |-> g[NOIB_MEMBERS].items,
             gatherer_id |-> IF g[GATHERER].t = "none" THEN None
                             ELSE Some(g[GATHERER].id),
             gathered |-> g[GATHERED],
             gather_time |-> g[GATHER_TIME]],
          err |-> ""]

\* What the platform resolves for an instance: whether its DiscordObjects
\* exist, the channel ids client.get_channel finds as text channels and the
\* member ids guild.get_member finds.
Channels == {20, 21}
Members == {10, 11}
Platforms == [ready : BOOLEAN, channels : SUBSET Channels, members : SUBSET Members]

\* The platform of a deployed instance after on_ready, with every channel and
\* member in reach.
Guild == [ready |-> TRUE, channels |-> Channels, members |-> Members]

\* guild.get_member(mid)
get_member(platform, mid) ==
    IF mid \in platform.members THEN MemberValue(mid) ELSE NoneValue

\* None in [guild.get_member(mid) for mid in ids]
HasUnresolved(platform, ids) ==
    \E k \in 1..Len(ids) : ids[k] \notin platform.members

\* The snapshots a SEND_WORKSPACE attachment may hold: the workspace of an
\* instance with nothing going on, and workspaces with a tracked lobby, a
\* lobby message, an okib channel, members and a gatherer.
Snapshots ==
    [open_lobbies : {<<>>, <<7>>},
     lobby_message_ids : {[k \in {} |-> NoneValue],
                          [k \in {<<"l", "7">>} |-> IntValue(70)]},
     okib_channel_id : {None, Some(20)},
     okib_message_id : {NoneValue, IntValue(42)},
     list_content : {StrValue(<<>>)},
     okib_member_ids : {<<>>, <<10>>},
     laterib_member_ids : {<<>>, <<11>>},
     noib_member_ids : {<<>>},
     gatherer_id : {None, Some(10)},
     gathered : {BoolValue(FALSE)},
     gather_time : {IntValue(0)}]

\* pickle.dumps(obj): the bytes of the attachment, a text that determines obj.
Pickle(obj) == ToString(obj)

\* pickle.loads(bytes): [ok, obj]; bytes that are no pickle of a snapshot
\* raise.
Unpickle(bytes) ==
    IF \E obj \in Snapshots : Pickle(obj) = bytes
    THEN [ok |-> TRUE, obj |-> CHOOSE obj \in Snapshots : Pickle(obj) = bytes]
    ELSE [ok |-> FALSE, obj |-> <<>>]

\* g with every global of f assigned
SetGlobals(g, f) ==
    [k \in DOMAIN g \cup DOMAIN f |-> IF k \in DOMAIN f THEN f[k] ELSE g[k]]

\* update_workspace on the snapshot obj, statement by statement: [ok, g].
ApplyWorkspace(platform, g, obj) ==
    LET g1 == SetGlobals(SetGlobal(g, OPEN_LOBBIES, ListValue(obj.open_lobbies)),
                         obj.lobby_message_ids)
        g2 == IF obj.okib_channel_id = None THEN g1
              ELSE SetGlobal(g1, OKIB_CHANNEL, ChannelValue(obj.okib_channel_id[1]))
        g3 == SetGlobal(SetGlobal(g2, OKIB_MESSAGE_ID, obj.okib_message_id),
                        LIST_CONTENT, obj.list_content)
        g4 == SetGlobal(
                SetGlobal(
                  SetGlobal(g3, OKIB_MEMBERS, MembersValue(obj.okib_member_ids)),
                  LATERIB_MEMBERS, MembersValue(obj.laterib_member_ids)),
                NOIB_MEMBERS, MembersValue(obj.noib_member_ids))
        g5 == IF obj.gatherer_id = None THEN g4
              ELSE SetGlobal(g4, GATHERER, get_member(platform, obj.gatherer_id[1]))
        g6 == SetGlobal(SetGlobal(g5, GATHERED, obj.gathered),
                        GATHER_TIME, obj.gather_time)
    IN  IF /\ obj.okib_channel_id # None
           /\ obj.okib_channel_id[1] \notin platform.channels
        THEN [ok |-> FALSE, g |-> g1]
        ELSE IF \/ HasUnresolved(platform, obj.okib_member_ids)
                \/ HasUnresolved(platform, obj.laterib_member_ids)
                \/ HasUnresolved(platform, obj.noib_member_ids)
        THEN [ok |-> FALSE, g |-> g3]
        ELSE IF obj.gatherer_id # None /\ g5[GATHERER].t = "none"
        THEN [ok |-> FALSE, g |-> g5]
        ELSE [ok |-> TRUE, g |-> g6]

\* update_workspace(workspace_bytes) under the globals g: [ok, g, err].
update_workspace(platform, g, workspace_bytes) ==
    IF ~platform.ready THEN [ok |-> FALSE, g |-> g, err |-> ""]
    ELSE IF ~Unpickle(workspace_bytes).ok
    THEN [ok |-> FALSE, g |-> g, err |-> "UnpicklingError"]
    ELSE LET applied == ApplyWorkspace(platform, g, Unpickle(workspace_bytes).obj)
         IN  [ok |-> applied.ok, g |-> applied.g, err |-> ""]

-----------------------------------------------------------------------------
(* MessageHub *)

\* MessageHub.__init__: one empty queue per message type.
NewHub == [mt \in MessageType |-> <<>>]

\* The entries of a queue recorded after the cutoff, in order.
NewerThan(queue, cutoff) ==
    SelectSeq(queue, LAMBDA m : m.timestamp > cutoff)

\* A faulty on_message that trims the queue of the recorded type only.
HubOnMessageOwnQueue(hub, message_type, message, t) ==
    [hub EXCEPT ![message_type] =
        NewerThan(Append(@, [timestamp |-> t, message |-> message]),
                  t - MAX_AGE_SECONDS)]

\* MessageHub.on_message: append, then trim every queue by MAX_AGE_SECONDS.
HubOnMessage(hub, message_type, message, t) ==
    LET added == [hub EXCEPT ![message_type] =
                      Append(@, [timestamp |-> t, message |-> message])]
    IN  [mt \in MessageType |-> NewerThan(added[mt], t - MAX_AGE_SECONDS)]

\* The loop of got_message over the messages in the window, for a return name.
RECURSIVE ScanForName(_, _)
ScanForName(messages, name) ==
    IF messages = <<>> THEN [found |-> FALSE, err |-> ""]
    ELSE IF Head(messages).message = <<>> THEN ScanForName(Tail(messages), name)
    ELSE LET kv == parse_ensure_display_value(Head(messages).message)
         IN  IF kv.err # "" THEN [found |-> FALSE, err |-> kv.err]
             ELSE IF kv.key = name THEN [found |-> TRUE, err |-> ""]
             ELSE ScanForName(Tail(messages), name)

\* A faulty got_message that takes any message in the window, whatever its
\* key.
got_message_any_name(hub, message_type, window_seconds, return_name, t) ==
    [found |-> Len(NewerThan(hub[message_type], t - window_seconds)) > 0,
     err |-> ""]

\* A faulty got_message that takes every message of the queue, whatever its
\* age.
got_message_any_age(hub, message_type, window_seconds, return_name, t) ==
    IF return_name = None
    THEN [found |-> Len(hub[message_type]) > 0, err |-> ""]
    ELSE IF message_type # ENSURE_DISPLAY
    THEN [found |-> FALSE, err |-> "AssertionError"]
    ELSE ScanForName(hub[message_type], return_name[1])

\* A faulty got_message that decides on the first message of the window.
got_message_first_only(hub, message_type, window_seconds, return_name, t) ==
    LET messages_in_window == NewerThan(hub[message_type], t - window_seconds)
    IN  IF return_name = None
        THEN [found |-> Len(messages_in_window) > 0, err |-> ""]
        ELSE IF message_type # ENSURE_DISPLAY
        THEN [found |-> FALSE, err |-> "AssertionError"]
        ELSE ScanForName(IF messages_in_window = <<>> THEN <<>>
                         ELSE <<Head(messages_in_window)>>,
                         return_name[1])

\* MessageHub.got_message: [found, err].
got_message(hub, message_type, window_seconds, return_name, t) ==
    LET messages_in_window == NewerThan(hub[message_type], t - window_seconds)
    IN  IF return_name = None
        THEN [found |-> Len(messages_in_window) > 0, err |-> ""]
        ELSE IF message_type # ENSURE_DISPLAY
        THEN [found |-> FALSE, err |-> "AssertionError"]
        ELSE ScanForName(messages_in_window, return_name[1])

-----------------------------------------------------------------------------
(* Envelopes: com() and the fields on_message splits out of the content *)

\* The envelope com() posts; attachment is "" or the kind of file attached.
Envelope(from_id, to_id, message_type, message, attachment) ==
    [from_id |-> from_id, to_id |-> to_id, message_type |-> message_type,
     message |-> message, attachment |-> attachment]

-----------------------------------------------------------------------------
(* TimedCallback *)

\* TimedCallback(timeout_seconds, func, ...) created at time t. func is
\* "self_promote" or "ensure_display_backup"; ev is the call the backup is
\* bound to (0 for self_promote). state: "pending", "fired" (the sleep is
\* over and the callback ran) or "cancelled".
TimedCallback(timeout_seconds, func, ev, t) ==
    [func |-> func, due |-> t + timeout_seconds, timeout |-> timeout_seconds,
     ev |-> ev, state |-> "pending"]

\* TimedCallback.cancel: a task that is done stays as it is.
Cancel(cb) == IF cb.state = "pending" THEN [cb EXCEPT !.state = "cancelled"] ELSE cb

-----------------------------------------------------------------------------
(* The calls of ensure_display: what the commands pass in *)

\* ev 1: ensure_display(up, ctx, return_name=...), default window of 2 seconds;
\*       the return name is written x.
\* ev 2: ensure_display(message.channel.send, ..., window=ENSURE_DISPLAY_WINDOW),
\*       no return name; the window is scaled down to 1 second.
Events == {1, 2}
NameX == <<"x">>
ReturnNameOf(ev) == IF ev = 1 THEN Some(NameX) ELSE None
WindowOf(ev) == IF ev = 1 THEN 2 ELSE 1

\* What the wrapped action may return.
Results == {IntValue(42), StrValue(<<"h", "i">>), NoneValue, ObjValue}

-----------------------------------------------------------------------------
(* The DB file *)

\* What os.path.exists says of a path that is not there.
NoFile == "no file"

\* The files of an instance under ROOT_DIR: the contents of DB_FILE_PATH and
\* of DB_ARCHIVE_PATH, and whether the archive directory exists.
Disk(db, archive, archive_dir) ==
    [db |-> db, archive |-> archive, archive_dir |-> archive_dir]

\* The files of an instance that has been deployed with its DB.
DeployedDisk == Disk("db", NoFile, FALSE)

\* The files a newcomer may start with: no DB, a DB of an earlier run, and a
\* DB with an archive of a still earlier one.
NewcomerDisks ==
    {Disk(NoFile, NoFile, FALSE), Disk("old", NoFile, FALSE),
     Disk("old", "older", TRUE)}

\* archive_db(): make the archive directory, move the DB file into it.
archive_db(disk) ==
    LET made == [disk EXCEPT !.archive_dir = TRUE]
    IN  IF made.db # NoFile
        THEN [made EXCEPT !.archive = made.db, !.db = NoFile]
        ELSE made

\* A faulty update_db that writes over the DB file without archiving it.
update_db_overwriting(disk, db_bytes) == [disk EXCEPT !.db = db_bytes]

\* update_db(db_bytes): archive_db(), then write db_bytes to the DB file.
update_db(disk, db_bytes) == [archive_db(disk) EXCEPT !.db = db_bytes]

-----------------------------------------------------------------------------
(* ComState *)

\* ComState.__init__, with the module globals and the files of the instance.
NewComState ==
    [initialized |-> FALSE,
     im_master |-> FALSE,
     alive_instances |-> {},
     master_instance |-> None,
     callbacks |-> <<>>,
     message_hub |-> NewHub,
     is_master_timeout |-> FALSE,
     globals |-> ModuleGlobals,
     disk |-> DeployedDisk]

\* What a handler did: the state it left, the envelopes it posted (in order),
\* the error it raised ("" when it returned), the ensure_display calls whose
\* action it started and is awaiting, and whether it ran
\* update_source_and_reset().
Result(s, out, err) ==
    [s |-> s, out |-> out, err |-> err, started |-> <<>>, reset |-> FALSE]

\* Sequencing of two handler results: the second ran on the state of the first.
Then(r1, r2) ==
    [s |-> r2.s, out |-> r1.out \o r2.out, err |-> r2.err,
     started |-> r1.started \o r2.started, reset |-> r1.reset \/ r2.reset]

\* for callback in self.callbacks: callback.cancel(); self.callbacks = []
ClearCallbacks(s) == [s EXCEPT !.callbacks = <<>>]

\* A faulty self_promote that claims mastership without announcing it.
self_promote_silent(BOT_ID, s) ==
    Result([s EXCEPT !.initialized = TRUE,
                     !.im_master = TRUE,
                     !.master_instance = Some(BOT_ID),
                     !.alive_instances = @ \cup {BOT_ID}],
           <<>>, "")

\* ComState.self_promote
self_promote(BOT_ID, s) ==
    Result([s EXCEPT !.initialized = TRUE,
                     !.im_master = TRUE,
                     !.master_instance = Some(BOT_ID),
                     !.alive_instances = @ \cup {BOT_ID}],
           <<Envelope(BOT_ID, BROADCAST, LET_MASTER, <<>>, "")>>,
           "")

\* ComState.connect at time t
connect(BOT_ID, s, t) ==
    Result([s EXCEPT !.callbacks =
                Append(@, TimedCallback(PROMOTE_DELAY, "self_promote", 0, t))],
           <<Envelope(BOT_ID, BROADCAST, CONNECT, StrInt(VERSION), "")>>,
           "")

\* send_db(to_id): the DB file is opened and posted.
send_db(BOT_ID, s, to_id) ==
    IF s.disk.db = NoFile THEN Result(s, <<>>, "FileNotFoundError")
    ELSE Result(s, <<Envelope(BOT_ID, to_id, SEND_DB, <<>>, s.disk.db)>>, "")

\* send_workspace(to_id)
send_workspace(BOT_ID, s, to_id) ==
    LET built == WorkspaceObj(s.globals)
    IN  IF built.err # "" THEN Result(s, <<>>, built.err)
        ELSE Result(s,
                    <<Envelope(BOT_ID, to_id, SEND_WORKSPACE, <<>>,
                               Pickle(built.obj))>>,
                    "")

\* parse_bot_com, MessageType.CONNECT
OnConnect(BOT_ID, s, from_id, message) ==
    LET acked == IF s.im_master
                 THEN LET ack == Result(s, <<Envelope(BOT_ID, from_id, CONNECT_ACK,
                                                     StrInt(VERSION) \o <<"+">>, "")>>,
                                        "")
                          db == Then(ack, send_db(BOT_ID, s, from_id))
                      IN  Then(db, send_workspace(BOT_ID, s, from_id))
                 ELSE Result(s, <<Envelope(BOT_ID, from_id, CONNECT_ACK,
                                           StrInt(VERSION), "")>>, "")
        out == acked.out
        version == ParseInt(message)
        added == [s EXCEPT !.alive_instances = @ \cup {from_id}]
    IN  IF acked.err # "" THEN acked
        ELSE IF ~version.ok THEN Result(s, out, "ValueError")
        ELSE IF version.v = VERSION THEN Result(added, out, "")
        ELSE IF version.v > VERSION
             THEN [Result(added, out, "") EXCEPT !.reset = TRUE]
             ELSE Result(s, out, "")

\* A faulty CONNECT_ACK branch that records the master but leaves the
\* callbacks sleeping.
OnConnectAckKeeping(BOT_ID, s, from_id, message) ==
    IF message = <<>> THEN Result(s, <<>>, "IndexError")
    ELSE LET marked == message[Len(message)] = "+"
             message_trim == IF marked THEN SubSeq(message, 1, Len(message) - 1)
                             ELSE message
             s1 == IF marked
                   THEN [s EXCEPT !.alive_instances = @ \cup {BOT_ID},
                                  !.master_instance = Some(from_id)]
                   ELSE s
         IN  IF ~ParseInt(message_trim).ok THEN Result(s1, <<>>, "ValueError")
             ELSE Result([s1 EXCEPT !.alive_instances = @ \cup {from_id}], <<>>, "")

\* parse_bot_com, MessageType.CONNECT_ACK
OnConnectAck(BOT_ID, s, from_id, message) ==
    IF message = <<>> THEN Result(s, <<>>, "IndexError")
    ELSE LET marked == message[Len(message)] = "+"
             message_trim == IF marked THEN SubSeq(message, 1, Len(message) - 1)
                             ELSE message
             s1 == IF marked
                   THEN ClearCallbacks(
                          [s EXCEPT !.alive_instances = @ \cup {BOT_ID},
                                    !.master_instance = Some(from_id)])
                   ELSE s
         IN  IF ~ParseInt(message_trim).ok THEN Result(s1, <<>>, "ValueError")
             ELSE Result([s1 EXCEPT !.alive_instances = @ \cup {from_id}], <<>>, "")

\* A faulty LET_MASTER branch that also cancels the pending callbacks.
OnLetMasterCancelling(BOT_ID, s, from_id) ==
    Result(ClearCallbacks([s EXCEPT !.im_master = FALSE,
                                    !.master_instance = Some(from_id)]),
           <<>>, "")

\* A faulty LET_MASTER branch that also records the sender as a member.
OnLetMasterJoining(BOT_ID, s, from_id) ==
    Result([s EXCEPT !.im_master = FALSE,
                     !.master_instance = Some(from_id),
                     !.alive_instances = @ \cup {from_id}],
           <<>>, "")

\* parse_bot_com, MessageType.LET_MASTER
OnLetMaster(BOT_ID, s, from_id) ==
    Result([s EXCEPT !.im_master = FALSE, !.master_instance = Some(from_id)],
           <<>>, "")

\* A faulty ENSURE_DISPLAY branch that leaves the callbacks sleeping.
OnEnsureDisplayKeeping(BOT_ID, s, from_id, message) ==
    LET kv == parse_ensure_display_value(message)
        s2 == IF message # <<>>
              THEN [s EXCEPT !.globals = SetGlobal(@, kv.key, kv.value)]
              ELSE s
    IN  IF message # <<>> /\ kv.err # "" THEN Result(s, <<>>, kv.err)
        ELSE IF Some(from_id) = s2.master_instance THEN Result(s2, <<>>, "")
        ELSE IF s2.master_instance = None
             THEN Result([s2 EXCEPT !.master_instance = Some(from_id)], <<>>, "")
        ELSE IF s2.master_instance[1] \notin s2.alive_instances
             THEN Result(s2, <<>>, "KeyError")
        ELSE Result([s2 EXCEPT !.alive_instances = @ \ {s2.master_instance[1]},
                               !.master_instance = Some(from_id)],
                    <<>>, "")

\* parse_bot_com, MessageType.ENSURE_DISPLAY
OnEnsureDisplay(BOT_ID, s, from_id, message) ==
    LET s1 == ClearCallbacks(s)
        kv == parse_ensure_display_value(message)
        s2 == IF message # <<>>
              THEN [s1 EXCEPT !.globals = SetGlobal(@, kv.key, kv.value)]
              ELSE s1
    IN  IF message # <<>> /\ kv.err # "" THEN Result(s1, <<>>, kv.err)
        ELSE IF Some(from_id) = s2.master_instance THEN Result(s2, <<>>, "")
        ELSE IF s2.master_instance = None
             THEN Result([s2 EXCEPT !.master_instance = Some(from_id)], <<>>, "")
        ELSE IF s2.master_instance[1] \notin s2.alive_instances
             THEN Result(s2, <<>>, "KeyError")
        ELSE Result([s2 EXCEPT !.alive_instances = @ \ {s2.master_instance[1]},
                               !.master_instance = Some(from_id)],
                    <<>>, "")

\* parse_bot_com, MessageType.SEND_DB
OnSendDb(BOT_ID, s, from_id, attachment) ==
    IF attachment = "" THEN Result(s, <<>>, "AssertionError")
    ELSE Result([s EXCEPT !.disk = update_db(@, attachment)],
                <<Envelope(BOT_ID, from_id, SEND_DB_ACK, <<>>, "")>>, "")

\* parse_bot_com, MessageType.SEND_WORKSPACE, on an instance whose platform
\* resolves what `platform` says.
OnSendWorkspaceOn(platform, BOT_ID, s, from_id, attachment) ==
    IF attachment = "" THEN Result(s, <<>>, "AssertionError")
    ELSE LET updated == update_workspace(platform, s.globals, attachment)
             s1 == [s EXCEPT !.globals = updated.g]
         IN  IF updated.err # "" THEN Result(s1, <<>>, updated.err)
             ELSE Result([s1 EXCEPT !.initialized = TRUE],
                         <<Envelope(BOT_ID, from_id, SEND_WORKSPACE_ACK, <<>>, "")>>,
                         "")

\* parse_bot_com, MessageType.SEND_WORKSPACE, on a deployed instance.
OnSendWorkspace(BOT_ID, s, from_id, attachment) ==
    OnSendWorkspaceOn(Guild, BOT_ID, s, from_id, attachment)

\* ComState.parse_bot_com at time t: the branch of the message type, then
\* message_hub.on_message when the branch raised nothing.
parse_bot_com(BOT_ID, s, from_id, message_type, message, attachment, t) ==
    LET r == CASE message_type = CONNECT -> OnConnect(BOT_ID, s, from_id, message)
               [] message_type = CONNECT_ACK -> OnConnectAck(BOT_ID, s, from_id, message)
               [] message_type = LET_MASTER -> OnLetMaster(BOT_ID, s, from_id)
               [] message_type = ENSURE_DISPLAY ->
                      OnEnsureDisplay(BOT_ID, s, from_id, message)
               [] message_type = SEND_DB -> OnSendDb(BOT_ID, s, from_id, attachment)
               [] message_type = SEND_WORKSPACE ->
                      OnSendWorkspace(BOT_ID, s, from_id, attachment)
               [] message_type \in {SEND_DB_ACK, SEND_WORKSPACE_ACK} ->
                      Result(s, <<>>, "")
               [] OTHER -> Result(s, <<>>, "Exception")
    IN  IF r.err # "" \/ r.reset THEN r
        ELSE [r EXCEPT !.s.message_hub =
                  HubOnMessage(@, message_type, message, t)]

\* A faulty test that lets an instance's own broadcasts through.
IsForMeOrMine(BOT_ID, from_id, to_id) ==
    to_id = BROADCAST \/ to_id = BOT_ID

\* The test of on_message: the envelope is from another instance and is a
\* broadcast or addressed to this one.
IsForMe(BOT_ID, from_id, to_id) ==
    from_id # BOT_ID /\ (to_id = BROADCAST \/ to_id = BOT_ID)

\* on_message for the message of the COM channel that com() posted for env.
\* The content is "from/to/type/message": its split on "/" has four fields
\* unless the message itself holds a "/", and then the envelope is dropped.
on_message(BOT_ID, s, env, t) ==
    IF \E k \in 1..Len(env.message) : env.message[k] = "/"
    THEN Result(s, <<>>, "")
    ELSE IF IsForMe(BOT_ID, env.from_id, env.to_id)
    THEN parse_bot_com(BOT_ID, s, env.from_id, env.message_type, env.message,
                       env.attachment, t)
    ELSE Result(s, <<>>, "")

\* message_type.value as text.
TypeText(message_type) ==
    CASE message_type = CONNECT -> <<"c", "o", "n", "n", "e", "c", "t">>
      [] message_type = CONNECT_ACK ->
             <<"c", "o", "n", "n", "e", "c", "t", "a", "c", "k">>
      [] message_type = LET_MASTER ->
             <<"l", "e", "t", "m", "a", "s", "t", "e", "r">>
      [] message_type = ENSURE_DISPLAY -> <<"e", "n", "s", "u", "r", "e">>
      [] message_type = SEND_DB -> <<"s", "e", "n", "d", "d", "b">>
      [] message_type = SEND_DB_ACK ->
             <<"s", "e", "n", "d", "d", "b", "a", "c", "k">>
      [] message_type = SEND_WORKSPACE -> <<"s", "e", "n", "d", "w", "s">>
      [] message_type = SEND_WORKSPACE_ACK ->
             <<"s", "e", "n", "d", "w", "s", "a", "c", "k">>

\* The payload of com(): "/".join([str(BOT_ID), str(to_id), type, message]).
Content(env) ==
    StrInt(env.from_id) \o <<"/">> \o StrInt(env.to_id) \o <<"/">>
        \o TypeText(env.message_type) \o <<"/">> \o env.message

\* A faulty on_message that takes the first four fields of a content with
\* four fields or more.
on_message_lenient(BOT_ID, s, content, attachment, t) ==
    LET message_split == Split(content, "/")
    IN  IF Len(message_split) < 4 THEN Result(s, <<>>, "")
        ELSE LET from_id == ParseInt(message_split[1])
                 to_id == ParseInt(message_split[2])
                 types == {mt \in MessageType : TypeText(mt) = message_split[3]}
             IN  IF ~from_id.ok \/ ~to_id.ok \/ types = {}
                 THEN Result(s, <<>>, "ValueError")
                 ELSE IF IsForMe(BOT_ID, from_id.v, to_id.v)
                 THEN parse_bot_com(BOT_ID, s, from_id.v, CHOOSE mt \in types : TRUE,
                                    message_split[4], attachment, t)
                 ELSE Result(s, <<>>, "")

\* on_message on the text of a message of the COM channel: the split on "/",
\* the test of the field count, int() of the ids, MessageType() of the type,
\* then parse_bot_com.
on_message_text(BOT_ID, s, content, attachment, t) ==
    LET message_split == Split(content, "/")
    IN  IF Len(message_split) # 4 THEN Result(s, <<>>, "")
        ELSE LET from_id == ParseInt(message_split[1])
                 to_id == ParseInt(message_split[2])
                 types == {mt \in MessageType : TypeText(mt) = message_split[3]}
             IN  IF ~from_id.ok \/ ~to_id.ok \/ types = {}
                 THEN Result(s, <<>>, "ValueError")
                 ELSE IF IsForMe(BOT_ID, from_id.v, to_id.v)
                 THEN parse_bot_com(BOT_ID, s, from_id.v, CHOOSE mt \in types : TRUE,
                                    message_split[4], attachment, t)
                 ELSE Result(s, <<>>, "")

-----------------------------------------------------------------------------
(* ensure_display *)

\* ComState.ensure_display up to its first suspension, at time t: the master
\* starts the action and awaits it (started); a follower asks the hub and
\* schedules the backup callback.
ensure_display(BOT_ID, s, ev, t) ==
    IF s.im_master
    THEN [Result(s, <<>>, "") EXCEPT !.started = <<ev>>]
    ELSE LET got == got_message(s.message_hub, ENSURE_DISPLAY, WindowOf(ev),
                                ReturnNameOf(ev), t)
         IN  IF got.err # "" THEN Result(s, <<>>, got.err)
             ELSE IF got.found THEN Result(s, <<>>, "")
             ELSE Result([s EXCEPT !.callbacks =
                             Append(@, TimedCallback(WindowOf(ev),
                                                     "ensure_display_backup", ev, t))],
                         <<>>, "")

\* A faulty encoding that leaves the type tag out.
EncodeResultUntagged(result) ==
    CASE result.t = "none" -> [text |-> <<>>, err |-> ""]
      [] result.t = "float" -> [text |-> result.s, err |-> ""]
      [] result.t = "int" -> [text |-> StrInt(result.n), err |-> ""]
      [] result.t = "str" -> [text |-> result.s, err |-> ""]
      [] OTHER -> [text |-> <<>>, err |-> "ValueError"]

\* The type tag and text of a result: "" for None; err for an unhandled type.
EncodeResult(result) ==
    CASE result.t = "none" -> [text |-> <<>>, err |-> ""]
      [] result.t = "float" -> [text |-> <<"f">> \o result.s, err |-> ""]
      [] result.t = "int" -> [text |-> <<"i">> \o StrInt(result.n), err |-> ""]
      [] result.t = "str" -> [text |-> <<"s">> \o result.s, err |-> ""]
      [] OTHER -> [text |-> <<>>, err |-> "ValueError"]

\* ComState.ensure_display on the master, after `await func(...)` returned
\* result: store it under return_name, build the message, broadcast.
ensure_display_finish(BOT_ID, s, ev, result) ==
    IF ReturnNameOf(ev) = None
    THEN Result(s, <<Envelope(BOT_ID, BROADCAST, ENSURE_DISPLAY, <<>>, "")>>, "")
    ELSE LET return_name == ReturnNameOf(ev)[1]
             s1 == [s EXCEPT !.globals = SetGlobal(@, return_name, result)]
             enc == EncodeResult(result)
         IN  IF enc.err # "" THEN Result(s1, <<>>, enc.err)
             ELSE Result(s1,
                         <<Envelope(BOT_ID, BROADCAST, ENSURE_DISPLAY,
                                    return_name \o <<"=">> \o enc.text, "")>>,
                         "")

\* The awaited action raised instead of returning.
ActionRaised == [t |-> "raised"]

\* A faulty ensure_display that catches the error of the action and goes on
\* as if the action had returned None.
ensure_display_swallowing(BOT_ID, s, ev, outcome) ==
    IF outcome = ActionRaised THEN ensure_display_finish(BOT_ID, s, ev, NoneValue)
    ELSE ensure_display_finish(BOT_ID, s, ev, outcome)

\* ComState.ensure_display on the master from `await func(...)` on: the
\* await raises what the action raised, or hands over its result.
ensure_display_resume(BOT_ID, s, ev, outcome) ==
    IF outcome = ActionRaised THEN Result(s, <<>>, "Exception")
    ELSE ensure_display_finish(BOT_ID, s, ev, outcome)

\* The loop of ensure_display_backup over self.callbacks from index k on, with
\* is_master_timeout False: cancel the callback and run it. The loop reads the
\* list it appends to; a list that outgrows MaxCallbacks ends the loop here
\* with err "unbounded".
RECURSIVE DrainCallbacks(_, _, _, _)
DrainCallbacks(BOT_ID, r, k, t) ==
    IF r.err # "" \/ k > Len(r.s.callbacks) THEN r
    ELSE IF Len(r.s.callbacks) > MaxCallbacks THEN [r EXCEPT !.err = "unbounded"]
    ELSE LET cb == r.s.callbacks[k]
             s1 == [r.s EXCEPT !.callbacks[k] = Cancel(cb)]
             ran == IF cb.func = "self_promote" THEN self_promote(BOT_ID, s1)
                    ELSE ensure_display(BOT_ID, s1, cb.ev, t)
         IN  DrainCallbacks(BOT_ID, Then(r, ran), k + 1, t)

\* The branch of ensure_display_backup taken when is_master_timeout is True.
Failover(BOT_ID, s, t) ==
    LET stale == IF s.master_instance = None
                 THEN IF s.alive_instances = {} THEN None
                      ELSE Some(Max(s.alive_instances))
                 ELSE s.master_instance
        s1 == [s EXCEPT !.alive_instances = @ \ {stale[1]},
                        !.master_instance = None]
    IN  IF stale = None THEN Result(s, <<>>, "ValueError")
        ELSE IF stale[1] \notin s.alive_instances THEN Result(s, <<>>, "KeyError")
        ELSE IF s1.alive_instances = {} THEN Result(s1, <<>>, "ValueError")
        ELSE LET promoted == IF Max(s1.alive_instances) = BOT_ID
                             THEN self_promote(BOT_ID, s1)
                             ELSE Result(s1, <<>>, "")
                 drained == DrainCallbacks(
                               BOT_ID,
                               [promoted EXCEPT !.s.is_master_timeout = FALSE],
                               1, t)
             IN  IF drained.err # "" THEN drained
                 ELSE [drained EXCEPT !.s.is_master_timeout = TRUE]

\* The command `update <bot_id>` handled by instance BOT_ID.
update(BOT_ID, s, bot_id) ==
    IF bot_id = BOT_ID THEN [Result(s, <<>>, "") EXCEPT !.reset = TRUE]
    ELSE LET s1 == [s EXCEPT !.alive_instances = @ \ {bot_id}]
             s2 == [s1 EXCEPT !.master_instance = None]
         IN  IF s.master_instance # Some(bot_id) THEN Result(s1, <<>>, "")
             ELSE IF s2.alive_instances = {} THEN Result(s2, <<>>, "ValueError")
             ELSE IF Max(s2.alive_instances) = BOT_ID THEN self_promote(BOT_ID, s2)
             ELSE Result(s2, <<>>, "")

\* A faulty ensure_display_backup that runs the action itself when the window
\* ends instead of going through ensure_display.
ensure_display_backup_direct(BOT_ID, s, ev, t) ==
    [Result(s, <<>>, "") EXCEPT !.started = <<ev>>]

\* ComState.ensure_display_backup at time t, bound to the call ev.
ensure_display_backup(BOT_ID, s, ev, t) ==
    IF s.is_master_timeout THEN Failover(BOT_ID, s, t)
    ELSE ensure_display(BOT_ID, s, ev, t)

\* TimedCallback._job once its sleep is over: the callback of entry k runs.
RunCallback(BOT_ID, s, k, t) ==
    LET cb == s.callbacks[k]
        s1 == [s EXCEPT !.callbacks[k].state = "fired"]
    IN  IF cb.func = "self_promote" THEN self_promote(BOT_ID, s1)
        ELSE ensure_display_backup(BOT_ID, s1, cb.ev, t)

-----------------------------------------------------------------------------
(* The deployment: the instances, the COM channel and the clock *)

VARIABLES
    proc,        \* proc[i]: "off", "up" (connected), "crashed" or "exited"
    st,          \* st[i]: the ComState of instance i
    inprog,      \* inprog[i]: the ensure_display calls awaiting their action
    called,      \* called[i]: the ensure_display calls instance i has made
    chan,        \* the COM channel: every envelope posted, in order
    start,       \* start[i]: the length of the channel when i connected
    read,        \* read[i]: the positions of the channel i has handled
    now,         \* the clock, in seconds
    cmds,        \* cmds[ev]: the second the user command of call ev was sent,
                 \* or -1 before it is
    execd,       \* execd[ev]: the instances that ran the action of call ev, one
                 \* entry per execution
    everMaster,  \* the instances that have had im_master = True
    lobby,       \* lobby[i]: _update_lobbies_lock of instance i and the
                 \* positions and locals of its lobby refresh tasks
    raised       \* raised[i]: the ensure_display calls whose action raised
                 \* on instance i, each with the error the caller got

vars ==
    <<proc, st, inprog, called, chan, start, read, now, cmds,
      execd, everMaster, lobby, raised>>

-----------------------------------------------------------------------------
(* The tracked lobbies *)

Range(seq) == {seq[k] : k \in 1..Len(seq)}

\* The lobby refresh tasks of an instance: two getgames commands and the
\* refresh_ib_lobbies loop.
Manual == {"getgames", "getgames again"}
Periodic == "refresh_ib_lobbies"
Tasks == Manual \cup {Periodic}

\* How many times the refresh_ib_lobbies loop runs.
MaxRounds == 2

\* The lock and the tasks before any of them ran. pc: "idle"; "command" (in
\* getgames, awaiting the deletion of the command message); "waiting" and
\* "woken" (in the lock's acquire); "delete" (in the lock, awaiting the
\* deletion of lobby messages); "query" (in the lock, in update_ib_lobbies,
\* awaiting the lobby APIs); "done". prev: the lists update_ib_lobbies read.
\* ent: is_ent_channel of getgames.
NewLobby ==
    [locked |-> FALSE,
     waiters |-> <<>>,
     pc |-> [t \in Tasks |-> "idle"],
     prev |-> [t \in Tasks |-> <<>>],
     ent |-> [t \in Tasks |-> FALSE],
     rounds |-> 0]

\* The lobbies the APIs may list: 7 on bnet, 8 on ENT.
IsEnt(l) == l = 8
\* lobby.get_message_id_key()
LobbyKey(l) == LOBBYMSG \o StrNat(l)
\* The id of the message Discord creates for lobby l.
MessageIdOf(l) == IntValue(10 * l)

\* What the two lobby APIs answer: a list each, or a failure (None).
ApiAnswers ==
    [bnet : {None, Some(<<>>), Some(<<7>>)}, ent : {None, Some(<<>>), Some(<<8>>)}]

\* del globals()[key] for every key of keys that is defined.
DelGlobals(g, keys) == [k \in DOMAIN g \ keys |-> g[k]]

\* ComState.ensure_display on a master whose action returned result: store
\* it under return_name (None: no name), build the message, broadcast.
display(BOT_ID, s, return_name, result) ==
    IF return_name = None
    THEN Result(s, <<Envelope(BOT_ID, BROADCAST, ENSURE_DISPLAY, <<>>, "")>>, "")
    ELSE LET s1 == [s EXCEPT !.globals = SetGlobal(@, return_name[1], result)]
             enc == EncodeResult(result)
         IN  IF enc.err # "" THEN Result(s1, <<>>, enc.err)
             ELSE Result(s1,
                         <<Envelope(BOT_ID, BROADCAST, ENSURE_DISPLAY,
                                    return_name[1] \o <<"=">> \o enc.text, "")>>,
                         "")

\* ENSURE_DISPLAY_WINDOW of the lobby code: LOBBY_REFRESH_RATE * 2.
ENSURE_DISPLAY_WINDOW == 10

\* ComState.ensure_display as the lobby code and getgames call it, on any
\* instance: a master displays; another instance appends a backup callback
\* unless its hub holds a recent ENSURE_DISPLAY (with the return name when
\* there is one). The clock is the one got_message and TimedCallback read.
ensure_display_of(BOT_ID, s, return_name, result, window) ==
    IF s.im_master THEN display(BOT_ID, s, return_name, result)
    ELSE CHOOSE backed \in
            {IF got.err # "" THEN Result(s, <<>>, got.err)
             ELSE IF got.found THEN Result(s, <<>>, "")
             ELSE Result([s EXCEPT !.callbacks =
                             Append(@, TimedCallback(window, "ensure_display_backup",
                                                     0, now))],
                         <<>>, "")
             : got \in {got_message(s.message_hub, ENSURE_DISPLAY, window,
                                    return_name, now)}} : TRUE

\* The calls the lobby code makes one after the other, each with the return
\* name and the result of an entry of calls.
RECURSIVE DisplayEach(_, _, _)
DisplayEach(BOT_ID, r, calls) ==
    IF calls = <<>> \/ r.err # "" THEN r
    ELSE DisplayEach(BOT_ID,
                     Then(r, ensure_display_of(BOT_ID, r.s, Head(calls).name,
                                               Head(calls).result,
                                               ENSURE_DISPLAY_WINDOW)),
                     Tail(calls))

\* The calls that display nothing to return, one per lobby of list.
Unnamed(list) == [k \in 1..Len(list) |-> [name |-> None, result |-> NoneValue]]

\* A faulty acquire that takes the lock whatever its state.
AcquireAnyway(lb) == TRUE

\* asyncio.Lock.acquire returns at once: the lock is free and no task waits.
CanAcquire(lb) == ~lb.locked /\ lb.waiters = <<>>

\* asyncio.Lock.release: the lock is free and the first waiter is woken.
Release(lb) ==
    [lb EXCEPT !.locked = FALSE,
               !.pc = IF lb.waiters = <<>> THEN @
                      ELSE [@ EXCEPT ![Head(lb.waiters)] = "woken"]]

\* update_ib_lobbies up to its await of the APIs: it reads _open_lobbies.
ReadLobbies(lb, s, task) ==
    [lb EXCEPT !.pc[task] = "query", !.prev[task] = s.globals[OPEN_LOBBIES].items]

\* getgames after its loop over _open_lobbies: the lobby messages of its
\* channel are deleted (an ENSURE_DISPLAY each, the message id forgotten), the
\* lobbies of the channel leave _open_lobbies, update_ib_lobbies starts.
\* [r, lb]
DeleteAndRead(BOT_ID, lb, s, task) ==
    LET mine(l) == IsEnt(l) = lb.ent[task]
        posted(l) == mine(l) /\ LobbyKey(l) \in DOMAIN s.globals
        lobbies == s.globals[OPEN_LOBBIES].items
        deleted == DisplayEach(BOT_ID, Result(s, <<>>, ""),
                               Unnamed(SelectSeq(lobbies, posted)))
        forgotten == DelGlobals(deleted.s.globals,
                                {LobbyKey(lobbies[k]) : k \in
                                    {j \in 1..Len(lobbies) : mine(lobbies[j])}})
        kept == SelectSeq(lobbies, LAMBDA l : ~mine(l))
        s1 == [deleted.s EXCEPT !.globals =
                  SetGlobal(forgotten, OPEN_LOBBIES, ListValue(kept))]
    IN  [r |-> [deleted EXCEPT !.s = s1], lb |-> ReadLobbies(lb, s1, task)]

\* The task holds the lock: refresh_ib_lobbies starts update_ib_lobbies;
\* getgames awaits the deletion of the lobby messages of its channel when
\* there are any, and goes on at once when there are none. [r, lb]
EnterSection(BOT_ID, lb, s, task) ==
    LET held == [lb EXCEPT !.locked = TRUE]
        lobbies == s.globals[OPEN_LOBBIES].items
    IN  IF task = Periodic
        THEN [r |-> Result(s, <<>>, ""), lb |-> ReadLobbies(held, s, task)]
        ELSE IF \E k \in 1..Len(lobbies) :
                    /\ IsEnt(lobbies[k]) = lb.ent[task]
                    /\ LobbyKey(lobbies[k]) \in DOMAIN s.globals
        THEN [r |-> Result(s, <<>>, ""), lb |-> [held EXCEPT !.pc[task] = "delete"]]
        ELSE DeleteAndRead(BOT_ID, held, s, task)

\* async with _update_lobbies_lock: [r, lb]
Acquire(BOT_ID, lb, s, task) ==
    IF CanAcquire(lb) THEN EnterSection(BOT_ID, lb, s, task)
    ELSE [r |-> Result(s, <<>>, ""),
          lb |-> [lb EXCEPT !.waiters = Append(@, task), !.pc[task] = "waiting"]]

\* report_lobbies for the lobbies prev of one API and its answer: the
\* messages of the closed lobbies are edited and forgotten, the new lobbies
\* get a message whose id is stored under their key; the list it returns is
\* the answer. A failed API leaves prev. [r, lobbies]
report_lobbies(BOT_ID, r, prev, answer) ==
    IF answer = None THEN [r |-> r, lobbies |-> prev]
    ELSE LET api == answer[1]
             closed == SelectSeq(prev, LAMBDA l : l \notin Range(api))
             edited == DisplayEach(BOT_ID, r,
                          Unnamed(SelectSeq(closed,
                                    LAMBDA l : LobbyKey(l) \in DOMAIN r.s.globals)))
             forgotten == [edited EXCEPT !.s.globals =
                              DelGlobals(@, {LobbyKey(l) : l \in Range(closed)})]
             new == SelectSeq(api, LAMBDA l : l \notin Range(prev))
             created == DisplayEach(BOT_ID, forgotten,
                           [k \in 1..Len(new) |->
                               [name |-> Some(LobbyKey(new[k])),
                                result |-> MessageIdOf(new[k])]])
         IN  [r |-> created, lobbies |-> api]

\* update_ib_lobbies once the APIs answered: the reports of both APIs on the
\* lists it read, then _open_lobbies is replaced.
update_ib_lobbies(BOT_ID, s, prev, answers) ==
    LET bnet == report_lobbies(BOT_ID, Result(s, <<>>, ""),
                               SelectSeq(prev, LAMBDA l : ~IsEnt(l)), answers.bnet)
        ent == report_lobbies(BOT_ID, bnet.r,
                              SelectSeq(prev, LAMBDA l : IsEnt(l)), answers.ent)
    IN  [ent.r EXCEPT !.s.globals =
            SetGlobal(@, OPEN_LOBBIES, ListValue(bnet.lobbies \o ent.lobbies))]

-----------------------------------------------------------------------------
(* The steps of the instances *)

Up == {i \in Ids : proc[i] = "up"}

\* The task of a callback of s is awaiting the action of call ev: its sleep
\* is over and the ensure_display it ran is at `await func(...)`.
RunsInCallback(s, ev) ==
    \E k \in 1..Len(s.callbacks) :
        /\ s.callbacks[k].func = "ensure_display_backup"
        /\ s.callbacks[k].ev = ev
        /\ s.callbacks[k].state = "fired"

\* The calls of instance i whose action a handler cancelled when it left
\* state s: callback.cancel() cancels the task of a callback that is awaiting
\* its action, and the rest of that ensure_display never runs.
Cancelled(i, s) ==
    {ev \in inprog[i] : RunsInCallback(st[i], ev) /\ ~RunsInCallback(s, ev)}

\* The task of a callback of s is inside self_promote, suspended at the send
\* of its LET_MASTER.
Sending(s) ==
    \E k \in 1..Len(s.callbacks) : s.callbacks[k].state = "sending"

\* The envelope of self_promote.
LetMasterOf(i) == Envelope(i, BROADCAST, LET_MASTER, <<>>, "")

\* What becomes of the send of a self_promote of instance i that a handler
\* cancelled when it left state s: the request was out already, or it is
\* dropped.
CancelledSends(i, s) ==
    IF Sending(st[i]) /\ ~Sending(s) THEN {<<>>, <<LetMasterOf(i)>>} ELSE {<<>>}

\* The effect of a handler result r of instance i on the deployment. An
\* action or a send that is cancelled while it is awaited may or may not
\* have taken effect.
Apply(i, r) ==
    /\ st' = [st EXCEPT ![i] = r.s]
    /\ proc' = IF r.reset THEN [proc EXCEPT ![i] = "exited"] ELSE proc
    /\ inprog' = [inprog EXCEPT ![i] = (@ \ Cancelled(i, r.s)) \cup Range(r.started)]
    /\ \E sent \in CancelledSends(i, r.s) : chan' = chan \o sent \o r.out
    /\ \E done \in SUBSET Cancelled(i, r.s) :
          execd' = [ev \in Events |->
                       IF ev \in done THEN Append(execd[ev], i) ELSE execd[ev]]
    /\ everMaster' = IF r.s.im_master THEN everMaster \cup {i} ELSE everMaster

\* The transport's addressing: an envelope concerns every instance but its
\* sender when it is a broadcast, and its addressee otherwise.
Addressed(i, env) ==
    env.from_id # i /\ (env.to_id = BROADCAST \/ env.to_id = i)

\* The positions of the channel that concern instance i and that it has not
\* handled yet.
Unread(i) ==
    {k \in (start[i] + 1)..Len(chan) : k \notin read[i] /\ Addressed(i, chan[k])}

\* The unread positions i may handle next: the oldest, or one of the
\* MaxReorder next ones (a handler that is suspended at an await lets the
\* handler of a later message run first).
Deliverable(i) ==
    {k \in Unread(i) : Cardinality({j \in Unread(i) : j < k}) <= MaxReorder}

Init ==
    /\ proc = [i \in Ids |-> "off"]
    /\ st = [i \in Ids |-> NewComState]
    /\ inprog = [i \in Ids |-> {}]
    /\ called = [i \in Ids |-> {}]
    /\ chan = <<>>
    /\ start = [i \in Ids |-> 0]
    /\ read = [i \in Ids |-> {}]
    /\ now = 0
    /\ cmds = [ev \in Events |-> 0 - 1]
    /\ execd = [ev \in Events |-> <<>>]
    /\ everMaster = {}
    /\ lobby = [i \in Ids |-> NewLobby]
    /\ raised = [i \in Ids |-> {}]

\* on_ready: the instance connects to the bot network.
Boot(i) ==
    /\ proc[i] = "off"
    /\ proc' = [proc EXCEPT ![i] = "up"]
    /\ start' = [start EXCEPT ![i] = Len(chan)]
    /\ LET r == connect(i, st[i], now)
       IN  /\ st' = [st EXCEPT ![i] = r.s]
           /\ chan' = chan \o r.out
           /\ UNCHANGED <<lobby, raised, inprog, called, read, now, cmds, execd, everMaster>>

\* The transport delivers an envelope instance i has not handled yet:
\* on_message runs on it.
Deliver(i) ==
    /\ proc[i] = "up"
    /\ \E k \in Deliverable(i) :
          /\ Apply(i, on_message(i, st[i], chan[k], now))
          /\ read' = [read EXCEPT ![i] = @ \cup {k}]
    /\ UNCHANGED <<lobby, raised, called, start, now, cmds>>

\* The instance sees the newest envelope of the channel, which does not concern
\* it (one of its own, or one addressed to another instance): on_message runs
\* on it.
Observe(i) ==
    /\ proc[i] = "up"
    /\ Len(chan) > start[i]
    /\ ~Addressed(i, chan[Len(chan)])
    /\ Apply(i, on_message(i, st[i], chan[Len(chan)], now))
    /\ UNCHANGED <<lobby, raised, called, start, read, now, cmds>>

\* The sleep of a callback of instance i is over.
FireCallback(i) ==
    /\ proc[i] = "up"
    /\ \E k \in 1..Len(st[i].callbacks) :
          /\ st[i].callbacks[k].state = "pending"
          /\ st[i].callbacks[k].due <= now
          /\ \/ Len(st[i].callbacks) < MaxCallbacks
             \/ st[i].callbacks[k].func = "self_promote"
          /\ Apply(i, RunCallback(i, st[i], k, now))
    /\ UNCHANGED <<lobby, raised, called, start, read, now, cmds>>

\* A user sends the command that makes every connected instance call
\* ensure_display for call ev. A behaviour follows one user command.
UserCommand ==
    /\ \A ev \in Events : cmds[ev] < 0
    /\ \E ev \in Events : cmds' = [cmds EXCEPT ![ev] = now]
    /\ UNCHANGED <<lobby, raised, proc, st, inprog, called, chan, start, read, now, execd, everMaster>>

\* The command handler of instance i calls ensure_display for call ev.
EnsureDisplayCall(i) ==
    /\ proc[i] = "up"
    /\ Len(st[i].callbacks) < MaxCallbacks
    /\ \E ev \in Events \ called[i] :
          /\ cmds[ev] >= 0
          /\ now = cmds[ev]
          /\ Apply(i, ensure_display(i, st[i], ev, now))
          /\ called' = [called EXCEPT ![i] = @ \cup {ev}]
    /\ UNCHANGED <<lobby, raised, start, read, now, cmds>>

\* The action a master awaited in ensure_display returns a result.
EnsureDisplayReturn(i) ==
    /\ proc[i] = "up"
    /\ \E ev \in inprog[i], result \in Results :
          LET r == ensure_display_finish(i, st[i], ev, result)
          IN  /\ st' = [st EXCEPT ![i] = r.s]
              /\ inprog' = [inprog EXCEPT ![i] = @ \ {ev}]
              /\ chan' = chan \o r.out
              /\ execd' = [execd EXCEPT ![ev] = Append(@, i)]
    /\ UNCHANGED <<lobby, raised, proc, called, start, read, now, cmds, everMaster>>

\* The process of instance i dies.
Crash(i) ==
    /\ proc[i] = "up"
    /\ Cardinality({j \in Ids : proc[j] = "crashed"}) < MaxCrash
    /\ proc' = [proc EXCEPT ![i] = "crashed"]
    /\ UNCHANGED <<lobby, raised, st, inprog, called, chan, start, read, now, cmds,
                   execd, everMaster>>

\* A second passes. A timer that is due fires, and an envelope or a user
\* command that concerns a connected instance is handled by it, within the
\* second.
Tick ==
    /\ now < MaxTime
    /\ \A i \in Up :
          /\ \A k \in 1..Len(st[i].callbacks) :
                st[i].callbacks[k].state = "pending" => st[i].callbacks[k].due > now
          /\ Unread(i) = {}
          /\ \A ev \in Events : cmds[ev] = now => ev \in called[i]
    /\ now' = now + 1
    /\ UNCHANGED <<lobby, raised, proc, st, inprog, called, chan, start, read, cmds,
                   execd, everMaster>>

Next ==
    \/ \E i \in Ids : Boot(i)
    \/ \E i \in Ids : Deliver(i)
    \/ \E i \in Ids : Observe(i)
    \/ \E i \in Ids : FireCallback(i)
    \/ UserCommand
    \/ \E i \in Ids : EnsureDisplayCall(i)
    \/ \E i \in Ids : EnsureDisplayReturn(i)
    \/ \E i \in Ids : Crash(i)
    \/ Tick

Spec == Init /\ [][Next]_vars

\* The sleep of the self-promotion timer of instance i is over: self_promote
\* runs up to `await self.com(...)`.
PromoteStart(i) ==
    /\ proc[i] = "up"
    /\ \E k \in 1..Len(st[i].callbacks) :
          /\ st[i].callbacks[k].state = "pending"
          /\ st[i].callbacks[k].due <= now
          /\ st[i].callbacks[k].func = "self_promote"
          /\ st' = [st EXCEPT ![i] =
                       [self_promote(i, st[i]).s EXCEPT !.callbacks[k].state = "sending"]]
    /\ everMaster' = everMaster \cup {i}
    /\ UNCHANGED <<lobby, raised, proc, inprog, called, chan, start, read, now, cmds, execd>>

\* The send of self_promote completes: the LET_MASTER is on the channel.
PromoteSent(i) ==
    /\ proc[i] = "up"
    /\ \E k \in 1..Len(st[i].callbacks) :
          /\ st[i].callbacks[k].state = "sending"
          /\ st' = [st EXCEPT ![i].callbacks[k].state = "fired"]
    /\ chan' = Append(chan, LetMasterOf(i))
    /\ UNCHANGED <<lobby, raised, proc, inprog, called, start, read, now, cmds, execd, everMaster>>

\* The sleep of a window timer of instance i is over.
FireBackup(i) ==
    /\ proc[i] = "up"
    /\ \E k \in 1..Len(st[i].callbacks) :
          /\ st[i].callbacks[k].state = "pending"
          /\ st[i].callbacks[k].due <= now
          /\ st[i].callbacks[k].func = "ensure_display_backup"
          /\ Len(st[i].callbacks) < MaxCallbacks
          /\ Apply(i, RunCallback(i, st[i], k, now))
    /\ UNCHANGED <<lobby, raised, called, start, read, now, cmds>>

\* The deployment with self_promote split at its send.
NextPromote ==
    \/ \E i \in Ids : Boot(i)
    \/ \E i \in Ids : Deliver(i)
    \/ \E i \in Ids : Observe(i)
    \/ \E i \in Ids : PromoteStart(i)
    \/ \E i \in Ids : PromoteSent(i)
    \/ \E i \in Ids : FireBackup(i)
    \/ UserCommand
    \/ \E i \in Ids : EnsureDisplayCall(i)
    \/ \E i \in Ids : EnsureDisplayReturn(i)
    \/ Tick

SpecPromote == Init /\ [][NextPromote]_vars

\* The election alone: the deployment without user commands.
NextElection ==
    \/ \E i \in Ids : Boot(i)
    \/ \E i \in Ids : Deliver(i)
    \/ \E i \in Ids : Observe(i)
    \/ \E i \in Ids : FireCallback(i)
    \/ \E i \in Ids : Crash(i)
    \/ Tick

SpecElection == Init /\ [][NextElection]_vars

\* A deployment that has been running for long: instance 2 is the master,
\* instance 1 its follower, and the follower's hub holds the ENSURE_DISPLAY
\* envelopes of the master's latest calls (entries older than MAX_AGE_SECONDS
\* are gone; the clock counts from 0 on). The ENSURE_DISPLAY payloads and the
\* seconds at which the follower handled them are drawn from small sets.
HubPayloads == {<<>>, <<"x", "=", "i", "4", "2">>, <<"y", "=", "i", "7">>}
HubStamps == {0 - 1, 0}
HubEntries == [timestamp : HubStamps, message : HubPayloads]
HubHistories ==
    {<<>>} \cup {<<e>> : e \in HubEntries}
           \cup {h \in HubEntries \X HubEntries : h[1].timestamp <= h[2].timestamp}

\* The second, long past, at which the two instances connected.
LongAgo == 0 - 1000

\* globals() after the ENSURE_DISPLAY payloads of a history were applied.
RECURSIVE GlobalsAfter(_, _)
GlobalsAfter(g, history) ==
    IF history = <<>> THEN g
    ELSE IF Head(history).message = <<>> THEN GlobalsAfter(g, Tail(history))
    ELSE LET kv == parse_ensure_display_value(Head(history).message)
         IN  GlobalsAfter(SetGlobal(g, kv.key, kv.value), Tail(history))

\* The follower after it connected to the master and then handled the
\* ENSURE_DISPLAY envelopes of history: it handled the master's CONNECT_ACK
\* and SEND_DB; the master's send_workspace raised, so no SEND_WORKSPACE
\* reached it and it is not initialized.
FollowerAfter(history) ==
    [initialized |-> FALSE,
     im_master |-> FALSE,
     alive_instances |-> {1, 2},
     master_instance |-> Some(2),
     callbacks |-> <<>>,
     message_hub |->
        IF history = <<>>
        THEN [NewHub EXCEPT
                ![CONNECT_ACK] = <<[timestamp |-> LongAgo,
                                    message |-> StrInt(VERSION) \o <<"+">>]>>,
                ![SEND_DB] = <<[timestamp |-> LongAgo, message |-> <<>>]>>]
        ELSE [NewHub EXCEPT ![ENSURE_DISPLAY] = history],
     is_master_timeout |-> FALSE,
     globals |-> GlobalsAfter(NewComState.globals, history),
     disk |-> update_db(DeployedDisk, DeployedDisk.db)]

\* The master after it promoted itself, answered the follower's CONNECT (the
\* handler raised in send_workspace, before the follower was added to
\* alive_instances and before the CONNECT was recorded) and made the calls of
\* history.
MasterAfter(history) ==
    [initialized |-> TRUE,
     im_master |-> TRUE,
     alive_instances |-> {2},
     master_instance |-> Some(2),
     callbacks |-> <<[TimedCallback(PROMOTE_DELAY, "self_promote", 0,
                                    LongAgo - PROMOTE_DELAY)
                        EXCEPT !.state = "fired"]>>,
     message_hub |->
        [NewHub EXCEPT
           ![SEND_DB_ACK] = <<[timestamp |-> LongAgo, message |-> <<>>]>>],
     is_master_timeout |-> FALSE,
     globals |-> GlobalsAfter(NewComState.globals, history),
     disk |-> DeployedDisk]

InitFollower ==
    /\ proc = [i \in Ids |-> "up"]
    /\ \E history \in HubHistories :
          st = [i \in Ids |-> IF i = 1 THEN FollowerAfter(history)
                              ELSE MasterAfter(history)]
    /\ inprog = [i \in Ids |-> {}]
    /\ called = [i \in Ids |-> {}]
    /\ chan = <<>>
    /\ start = [i \in Ids |-> 0]
    /\ read = [i \in Ids |-> {}]
    /\ now = 0
    /\ cmds = [ev \in Events |-> 0 - 1]
    /\ execd = [ev \in Events |-> <<>>]
    /\ everMaster = {2}
    /\ lobby = [i \in Ids |-> NewLobby]
    /\ raised = [i \in Ids |-> {}]

NextFollower ==
    \/ \E i \in Ids : Deliver(i)
    \/ \E i \in Ids : FireCallback(i)
    \/ UserCommand
    \/ \E i \in Ids : EnsureDisplayCall(i)
    \/ \E i \in Ids : EnsureDisplayReturn(i)
    \/ Tick

SpecFollower == InitFollower /\ [][NextFollower]_vars

\* The action a master awaited in ensure_display raises.
EnsureDisplayRaise(i) ==
    /\ proc[i] = "up"
    /\ \E ev \in inprog[i] :
          LET r == ensure_display_resume(i, st[i], ev, ActionRaised)
          IN  /\ st' = [st EXCEPT ![i] = r.s]
              /\ inprog' = [inprog EXCEPT ![i] = @ \ {ev}]
              /\ chan' = chan \o r.out
              /\ raised' = [raised EXCEPT ![i] = @ \cup {[ev |-> ev, err |-> r.err]}]
    /\ UNCHANGED <<lobby, proc, called, start, read, now, cmds, execd, everMaster>>

\* The master and its follower, with actions that may raise.
NextRaise ==
    \/ NextFollower
    \/ \E i \in Ids : EnsureDisplayRaise(i)

SpecRaise == InitFollower /\ [][NextRaise]_vars

\* A master that has been running alone for long: it promoted itself and has
\* seen no other instance.
MasterAlone == [MasterAfter(<<>>) EXCEPT !.message_hub = NewHub]

\* A newcomer joins a deployment that has been running for long: instance 2 is
\* the master, and has or has not answered instance 1 before; instance 1 has
\* not connected yet.
InitJoin ==
    /\ proc = [i \in Ids |-> IF i = 2 THEN "up" ELSE "off"]
    /\ \E master \in {MasterAlone, MasterAfter(<<>>)}, disk \in NewcomerDisks :
          st = [i \in Ids |-> IF i = 2 THEN master
                              ELSE [NewComState EXCEPT !.disk = disk]]
    /\ inprog = [i \in Ids |-> {}]
    /\ called = [i \in Ids |-> {}]
    /\ chan = <<>>
    /\ start = [i \in Ids |-> 0]
    /\ read = [i \in Ids |-> {}]
    /\ now = 0
    /\ cmds = [ev \in Events |-> 0 - 1]
    /\ execd = [ev \in Events |-> <<>>]
    /\ everMaster = {2}
    /\ lobby = [i \in Ids |-> NewLobby]
    /\ raised = [i \in Ids |-> {}]

NextJoin ==
    \/ \E i \in Ids : Boot(i)
    \/ \E i \in Ids : Deliver(i)
    \/ \E i \in Ids : Observe(i)
    \/ \E i \in Ids : FireCallback(i)
    \/ \E i \in Ids : Crash(i)
    \/ Tick

SpecJoin == InitJoin /\ [][NextJoin]_vars

\* The join without crashes. The event loop runs every handler that is
\* ready and the transport delivers every envelope: each of these steps is
\* taken if it stays possible. No timer comes due: the master's marked
\* CONNECT_ACK cancels the newcomer's self-promotion within the second of
\* its CONNECT.
NextJoining ==
    \/ \E i \in Ids : Boot(i)
    \/ \E i \in Ids : Deliver(i)
    \/ \E i \in Ids : Observe(i)
    \/ Tick

FairJoining ==
    /\ \A i \in Ids : WF_vars(Boot(i)) /\ WF_vars(Deliver(i))
    /\ WF_vars(Tick)

SpecJoining == InitJoin /\ [][NextJoining]_vars /\ FairJoining

\* The globals of an instance that became a member of a deployment by
\* applying the snapshot of the master of the time: the only assignments of
\* the okib globals the code makes are those of update_workspace.
SyncedGlobals ==
    {ApplyWorkspace(Guild, ModuleGlobals, obj).g : obj \in Snapshots}

\* A newcomer joins a deployment whose master, instance 2, got its workspace
\* from an earlier master and has been running alone since.
InitSync ==
    /\ proc = [i \in Ids |-> IF i = 2 THEN "up" ELSE "off"]
    /\ \E g \in SyncedGlobals :
          st = [i \in Ids |-> IF i = 2 THEN [MasterAlone EXCEPT !.globals = g]
                                       ELSE NewComState]
    /\ inprog = [i \in Ids |-> {}]
    /\ called = [i \in Ids |-> {}]
    /\ chan = <<>>
    /\ start = [i \in Ids |-> 0]
    /\ read = [i \in Ids |-> {}]
    /\ now = 0
    /\ cmds = [ev \in Events |-> 0 - 1]
    /\ execd = [ev \in Events |-> <<>>]
    /\ everMaster = {2}
    /\ lobby = [i \in Ids |-> NewLobby]
    /\ raised = [i \in Ids |-> {}]

SpecSync == InitSync /\ [][NextJoin]_vars

\* A user sends the command of the other call after the first one.
UserCommandAgain ==
    /\ \E ev \in Events : cmds[ev] >= 0
    /\ \E ev \in Events :
          /\ cmds[ev] < 0
          /\ cmds' = [cmds EXCEPT ![ev] = now]
    /\ UNCHANGED <<lobby, raised, proc, st, inprog, called, chan, start, read, now, execd, everMaster>>

\* The long-running master and its follower, the follower's hub without any
\* ENSURE_DISPLAY, and two user commands: the follower may hold the window
\* timers of both calls at once.
InitCascade ==
    /\ proc = [i \in Ids |-> "up"]
    /\ st = [i \in Ids |-> IF i = 1 THEN FollowerAfter(<<>>) ELSE MasterAfter(<<>>)]
    /\ inprog = [i \in Ids |-> {}]
    /\ called = [i \in Ids |-> {}]
    /\ chan = <<>>
    /\ start = [i \in Ids |-> 0]
    /\ read = [i \in Ids |-> {}]
    /\ now = 0
    /\ cmds = [ev \in Events |-> 0 - 1]
    /\ execd = [ev \in Events |-> <<>>]
    /\ everMaster = {2}
    /\ lobby = [i \in Ids |-> NewLobby]
    /\ raised = [i \in Ids |-> {}]

NextCascade ==
    \/ \E i \in Ids : Deliver(i)
    \/ \E i \in Ids : FireCallback(i)
    \/ UserCommand
    \/ UserCommandAgain
    \/ \E i \in Ids : EnsureDisplayCall(i)
    \/ \E i \in Ids : EnsureDisplayReturn(i)
    \/ Tick

SpecCascade == InitCascade /\ [][NextCascade]_vars

\* A follower of a deployment of three instances whose master, instance 3,
\* has stopped: the member list holds 1, 2 and 3.
FollowerOfThree ==
    [FollowerAfter(<<>>) EXCEPT !.alive_instances = {1, 2, 3},
                                !.master_instance = Some(3)]

\* Instances 1 and 2 are long connected followers of the stopped master.
InitDrain ==
    /\ proc = [i \in Ids |-> "up"]
    /\ st = [i \in Ids |-> FollowerOfThree]
    /\ inprog = [i \in Ids |-> {}]
    /\ called = [i \in Ids |-> {}]
    /\ chan = <<>>
    /\ start = [i \in Ids |-> 0]
    /\ read = [i \in Ids |-> {}]
    /\ now = 0
    /\ cmds = [ev \in Events |-> 0 - 1]
    /\ execd = [ev \in Events |-> <<>>]
    /\ everMaster = {}
    /\ lobby = [i \in Ids |-> NewLobby]
    /\ raised = [i \in Ids |-> {}]

\* Nobody displays and nothing is posted: the followers only get commands
\* and their window callbacks fire.
NextDrain ==
    \/ \E i \in Ids : FireCallback(i)
    \/ UserCommand
    \/ UserCommandAgain
    \/ \E i \in Ids : EnsureDisplayCall(i)
    \/ Tick

SpecDrain == InitDrain /\ [][NextDrain]_vars

\* The envelopes a third instance posts to a running deployment: its CONNECT,
\* its acknowledgements and, once it leads, its ENSURE_DISPLAY broadcasts.
PeerEnvelopes ==
    {Envelope(3, BROADCAST, CONNECT, StrInt(VERSION), ""),
     Envelope(3, 2, SEND_DB_ACK, <<>>, ""),
     Envelope(3, BROADCAST, ENSURE_DISPLAY, <<>>, ""),
     Envelope(3, BROADCAST, ENSURE_DISPLAY, <<"x", "=", "i", "4", "2">>, "")}

\* How many envelopes the third instance posts.
MaxPosts == 3
\* The quiet periods of the deployment, around MAX_AGE_SECONDS, and the
\* second after which no period starts.
Lapses == {MAX_AGE_SECONDS - 1, MAX_AGE_SECONDS, MAX_AGE_SECONDS + 1}
HubHorizon == 2 * MAX_AGE_SECONDS + 2

\* The third instance posts an envelope.
PeerPosts ==
    /\ Len(chan) < MaxPosts
    /\ \E env \in PeerEnvelopes : chan' = Append(chan, env)
    /\ UNCHANGED <<lobby, raised, proc, st, inprog, called, start, read, now, cmds, execd, everMaster>>

\* Nothing happens for a long time.
Lapse ==
    /\ \A i \in Ids : Unread(i) = {}
    /\ \E d \in Lapses :
          /\ now + d <= HubHorizon
          /\ now' = now + d
    /\ UNCHANGED <<lobby, raised, proc, st, inprog, called, chan, start, read, cmds, execd, everMaster>>

\* The long-running master and its follower, a third instance posting, and
\* quiet periods as long as the hub keeps its entries.
InitHub ==
    /\ proc = [i \in Ids |-> "up"]
    /\ st = [i \in Ids |-> IF i = 1 THEN FollowerAfter(<<>>) ELSE MasterAfter(<<>>)]
    /\ inprog = [i \in Ids |-> {}]
    /\ called = [i \in Ids |-> {}]
    /\ chan = <<>>
    /\ start = [i \in Ids |-> 0]
    /\ read = [i \in Ids |-> {}]
    /\ now = 0
    /\ cmds = [ev \in Events |-> 0 - 1]
    /\ execd = [ev \in Events |-> <<>>]
    /\ everMaster = {2}
    /\ lobby = [i \in Ids |-> NewLobby]
    /\ raised = [i \in Ids |-> {}]

NextHub ==
    \/ PeerPosts
    \/ \E i \in Ids : Deliver(i)
    \/ Lapse

SpecHub == InitHub /\ [][NextHub]_vars

\* The effect on the deployment of a step of a lobby task of instance i that
\* left the ComState and envelopes of r and the tasks lb.
ApplyLobby(i, r, lb) ==
    /\ st' = [st EXCEPT ![i] = r.s]
    /\ chan' = chan \o r.out
    /\ lobby' = [lobby EXCEPT ![i] = lb]
    /\ UNCHANGED <<raised, proc, inprog, called, start, read, now, cmds, execd, everMaster>>

\* A user sends getgames in the bnet or the ENT channel: the command awaits
\* the deletion of the command message.
GetgamesStart(i) ==
    /\ proc[i] = "up"
    /\ \E task \in Manual, is_ent_channel \in BOOLEAN :
          /\ lobby[i].pc[task] = "idle"
          /\ ApplyLobby(i, Result(st[i], <<>>, ""),
                        [lobby[i] EXCEPT !.pc[task] = "command",
                                         !.ent[task] = is_ent_channel])

\* ensure_display of the deletion of the command message returns: getgames
\* acquires the lock.
GetgamesLock(i) ==
    /\ proc[i] = "up"
    /\ \E task \in Manual :
          /\ lobby[i].pc[task] = "command"
          /\ LET shown == ensure_display_of(i, st[i], None, NoneValue, 2)
                 got == Acquire(i, lobby[i], shown.s, task)
             IN  ApplyLobby(i, Then(shown, got.r), got.lb)

\* The loop of tasks.loop calls refresh_ib_lobbies: nothing when the instance
\* is not initialized, else it acquires the lock.
RefreshStart(i) ==
    /\ proc[i] = "up"
    /\ lobby[i].pc[Periodic] = "idle"
    /\ lobby[i].rounds < MaxRounds
    /\ LET counted == [lobby[i] EXCEPT !.rounds = @ + 1]
           got == Acquire(i, counted, st[i], Periodic)
       IN  IF st[i].initialized THEN ApplyLobby(i, got.r, got.lb)
           ELSE ApplyLobby(i, Result(st[i], <<>>, ""), counted)

\* A task the release woke takes the lock.
Resume(i) ==
    /\ proc[i] = "up"
    /\ \E task \in Tasks :
          /\ lobby[i].pc[task] = "woken"
          /\ LET got == EnterSection(i, [lobby[i] EXCEPT
                                            !.waiters = SelectSeq(@, LAMBDA w : w # task)],
                                     st[i], task)
             IN  ApplyLobby(i, got.r, got.lb)

\* The lobby messages getgames was deleting are deleted.
GetgamesDelete(i) ==
    /\ proc[i] = "up"
    /\ \E task \in Manual :
          /\ lobby[i].pc[task] = "delete"
          /\ LET got == DeleteAndRead(i, lobby[i], st[i], task)
             IN  ApplyLobby(i, got.r, got.lb)

\* The lobby APIs answer a task that is in update_ib_lobbies: it reports,
\* replaces _open_lobbies and leaves the lock.
Publish(i) ==
    /\ proc[i] = "up"
    /\ \E task \in Tasks, answers \in ApiAnswers :
          /\ lobby[i].pc[task] = "query"
          /\ ApplyLobby(i, update_ib_lobbies(i, st[i], lobby[i].prev[task], answers),
                        [Release(lobby[i]) EXCEPT
                            !.pc[task] = IF task = Periodic THEN "idle" ELSE "done",
                            !.prev[task] = <<>>])

\* A master on its own, its refresh loop and two getgames commands.
InitLobby ==
    /\ proc = [i \in Ids |-> IF i = 2 THEN "up" ELSE "off"]
    /\ st = [i \in Ids |-> IF i = 2 THEN MasterAlone ELSE NewComState]
    /\ inprog = [i \in Ids |-> {}]
    /\ called = [i \in Ids |-> {}]
    /\ chan = <<>>
    /\ start = [i \in Ids |-> 0]
    /\ read = [i \in Ids |-> {}]
    /\ now = 0
    /\ cmds = [ev \in Events |-> 0 - 1]
    /\ execd = [ev \in Events |-> <<>>]
    /\ everMaster = {2}
    /\ lobby = [i \in Ids |-> NewLobby]
    /\ raised = [i \in Ids |-> {}]

NextLobby ==
    \/ \E i \in Ids : GetgamesStart(i)
    \/ \E i \in Ids : GetgamesLock(i)
    \/ \E i \in Ids : RefreshStart(i)
    \/ \E i \in Ids : Resume(i)
    \/ \E i \in Ids : GetgamesDelete(i)
    \/ \E i \in Ids : Publish(i)

SpecLobby == InitLobby /\ [][NextLobby]_vars

\* The globals of a master that tracks lobbies, with one gathering.
TrackingGlobals ==
    {ApplyWorkspace(Guild, ModuleGlobals, obj).g :
        obj \in {o \in Snapshots : /\ o.okib_channel_id # None
                                   /\ o.okib_message_id # NoneValue
                                   /\ o.okib_member_ids # <<>>
                                   /\ o.laterib_member_ids = <<>>
                                   /\ o.gatherer_id # None}}

\* A newcomer joins such a master, instance 2; one getgames command is sent.
InitRefresh ==
    /\ proc = [i \in Ids |-> IF i = 2 THEN "up" ELSE "off"]
    /\ \E g \in TrackingGlobals :
          st = [i \in Ids |-> IF i = 2 THEN [MasterAlone EXCEPT !.globals = g]
                                       ELSE NewComState]
    /\ inprog = [i \in Ids |-> {}]
    /\ called = [i \in Ids |-> {}]
    /\ chan = <<>>
    /\ start = [i \in Ids |-> 0]
    /\ read = [i \in Ids |-> {}]
    /\ now = 0
    /\ cmds = [ev \in Events |-> 0 - 1]
    /\ execd = [ev \in Events |-> <<>>]
    /\ everMaster = {2}
    /\ lobby = [i \in Ids |-> [NewLobby EXCEPT !.pc["getgames again"] = "done"]]
    /\ raised = [i \in Ids |-> {}]

\* The newcomer, instance 1, joins while it runs one getgames command and
\* its refresh loop, all within one second.
NextRefresh ==
    \/ \E i \in Ids : Boot(i)
    \/ \E i \in Ids : Deliver(i)
    \/ GetgamesStart(1)
    \/ GetgamesLock(1)
    \/ RefreshStart(1)
    \/ Resume(1)
    \/ GetgamesDelete(1)
    \/ Publish(1)

SpecRefresh == InitRefresh /\ [][NextRefresh]_vars

-----------------------------------------------------------------------------
(* Views of the deployment used by the properties *)

\* The timers of instance i that are still sleeping.
Pending(i) ==
    {k \in 1..Len(st[i].callbacks) : st[i].callbacks[k].state = "pending"}

\* In this step the sleep of an ensure_display_backup timer of instance f ends
\* and the callback runs.
BackupFires(f) ==
    \E k \in Pending(f) :
        /\ st[f].callbacks[k].func = "ensure_display_backup"
        /\ Len(st'[f].callbacks) >= k
        /\ st'[f].callbacks[k].state = "fired"

\* In this step the sleep of the self_promote timer of instance i ends and
\* the callback runs.
PromoteFires(i) ==
    \E k \in Pending(i) :
        /\ st[i].callbacks[k].func = "self_promote"
        /\ Len(st'[i].callbacks) >= k
        /\ st'[i].callbacks[k].state = "fired"

\* The election is over: every instance has booted and none has crashed or
\* exited, every envelope has been handled, no timer is sleeping, and no
\* ensure_display traffic has taken place.
Settled ==
    /\ \A i \in Ids : proc[i] = "up" /\ Unread(i) = {} /\ Pending(i) = {}
    /\ \A ev \in Events : cmds[ev] < 0

-----------------------------------------------------------------------------
(* C1 *)

\* C1: once every envelope of the election has been delivered and no boot or
\* crash is left to happen, exactly one instance has im_master = True and
\* every other instance has master_instance equal to that instance's id.
C1_EventualSingleMaster ==
    Settled =>
        \E m \in Ids :
            /\ st[m].im_master
            /\ \A i \in Ids \ {m} :
                  ~st[i].im_master /\ st[i].master_instance = Some(m)

-----------------------------------------------------------------------------
(* C2 *)

\* Follower f points at a master whose process has crashed, has handled every
\* envelope sent to it, and its self-promotion timer is no longer sleeping:
\* only its window timers are left to run.
StaleMaster(f) ==
    /\ proc[f] = "up"
    /\ ~st[f].im_master
    /\ st[f].master_instance # None
    /\ st[f].master_instance[1] \in Ids
    /\ proc[st[f].master_instance[1]] = "crashed"
    /\ Unread(f) = {}
    /\ \A k \in Pending(f) : st[f].callbacks[k].func = "ensure_display_backup"

\* C2: when the window timer of a follower that has called ensure_display
\* runs out while the master it points at is dead, the follower sets
\* im_master = True itself, or drops the dead master from master_instance, or
\* at least arms the failover (is_master_timeout) for its next timeout; so no
\* follower keeps master_instance pointing at the dead master forever.
C2_FailoverOnTimeout ==
    [][\A f \in Ids :
          (StaleMaster(f) /\ BackupFires(f)) =>
              \/ st'[f].im_master
              \/ st'[f].master_instance # st[f].master_instance
              \/ st'[f].is_master_timeout]_vars

-----------------------------------------------------------------------------
(* C3 *)

\* The ensure_display call ev of instance m is over: its action is not awaited
\* and no window timer bound to it is still sleeping.
CallComplete(m, ev) ==
    /\ proc[m] = "up"
    /\ ev \in called[m]
    /\ ev \notin inprog[m]
    /\ \A k \in Pending(m) : st[m].callbacks[k].ev # ev

\* C3: as long as one instance at most has ever been master, the action of an
\* ensure_display call has run at most once, on that master only, whatever
\* the followers' window timers did; and once the master's own call is over
\* it has run exactly once.
C3_ExactlyOnce ==
    \A ev \in Events :
        Cardinality(everMaster) <= 1 =>
            /\ Len(execd[ev]) <= 1
            /\ Range(execd[ev]) \subseteq everMaster
            /\ \A m \in everMaster :
                  CallComplete(m, ev) => execd[ev] = <<m>>

\* The single master has run the action once while a follower that made the
\* same call has already had a window timer run out: the master's
\* ENSURE_DISPLAY is late for it.
C3_Witness ==
    \E m \in Ids, f \in Ids, ev \in Events :
        /\ f # m
        /\ everMaster = {m}
        /\ CallComplete(m, ev)
        /\ execd[ev] = <<m>>
        /\ proc[f] = "up"
        /\ ev \in called[f]
        /\ \E k \in 1..Len(st[f].callbacks) :
              /\ st[f].callbacks[k].func = "ensure_display_backup"
              /\ st[f].callbacks[k].state = "fired"

-----------------------------------------------------------------------------
(* C4 *)

\* Well-formed payloads of the envelopes that may be delivered again.
AckPayloads == {<<"5">>, <<"5", "+">>}
DisplayPayloads == {<<>>, <<"x", "=", "i", "4", "2">>}

\* The fields of ComState the re-delivery must leave alone.
Core(s) ==
    <<s.im_master, s.initialized, s.alive_instances, s.master_instance,
      s.callbacks>>

\* Handling the envelope (from_id, message_type, message) twice in a row in
\* state s gives the state of handling it once, and the second handling
\* raises nothing.
Idempotent(BOT_ID, s, from_id, message_type, message) ==
    LET once == parse_bot_com(BOT_ID, s, from_id, message_type, message, "", now)
        twice == parse_bot_com(BOT_ID, once.s, from_id, message_type, message,
                               "", now)
    IN  twice.err = "" /\ Core(twice.s) = Core(once.s)

\* C4: in every reachable state of a connected instance, a CONNECT_ACK
\* (marked or not) or ENSURE_DISPLAY envelope from any peer that is handled
\* twice in a row leaves im_master, initialized, alive_instances,
\* master_instance and the callbacks as handling it once does, and the second
\* handling raises no error.
C4_IdempotentRedelivery ==
    \A i \in Up : \A from_id \in Peers \ {i} :
        /\ \A message \in AckPayloads :
              Idempotent(i, st[i], from_id, CONNECT_ACK, message)
        /\ \A message \in DisplayPayloads :
              Idempotent(i, st[i], from_id, ENSURE_DISPLAY, message)

-----------------------------------------------------------------------------
(* C5 *)

\* C5: an instance that is initialized has its own id in alive_instances.
C5_SelfInMembership ==
    \A i \in Up : st[i].initialized => i \in st[i].alive_instances

-----------------------------------------------------------------------------
(* C6 *)

\* Envelopes an instance may observe on the COM channel: from any peer, to any
\* peer or to all, of any type.
SamplePayloads == {<<>>, <<"5">>, <<"5", "+">>, <<"x", "=", "i", "4", "2">>}

Observable ==
    {Envelope(from_id, to_id, message_type, message, attachment) :
        from_id \in Peers, to_id \in Peers \cup {-1},
        message_type \in MessageType, message \in SamplePayloads,
        attachment \in {"", "workspace"}}

\* C6: on_message passes an observed envelope to parse_bot_com exactly when
\* from_id is not the instance's own id and to_id is -1 or its own id; on any
\* other envelope (its own broadcasts, envelopes addressed to another
\* instance) it leaves the whole ComState, message hub included, as it was,
\* posts nothing and raises nothing.
C6_RelevanceFilter ==
    \A i \in Up : \A env \in Observable :
        LET r == on_message(i, st[i], env, now)
        IN  IF env.from_id # i /\ (env.to_id = -1 \/ env.to_id = i)
            THEN r = parse_bot_com(i, st[i], env.from_id, env.message_type,
                                   env.message, env.attachment, now)
            ELSE r.s = st[i] /\ r.out = <<>> /\ r.err = ""

\* An instance that has handled an envelope of a peer has been shown, after
\* it, a broadcast of its own.
C6_Witness ==
    \E i \in Up :
        /\ read[i] # {}
        /\ \E k \in (start[i] + 1)..Len(chan) :
              /\ chan[k].from_id = i
              /\ chan[k].to_id = -1
              /\ \E j \in read[i] : j < k

-----------------------------------------------------------------------------
(* C7 *)

\* In this step the action that instance i awaited for call ev returns: the
\* call is no longer awaited, and not because a handler cancelled it.
Returns(i, ev) == ev \in inprog[i] /\ ev \notin inprog'[i] /\ read'[i] = read[i]

-----------------------------------------------------------------------------
(* C8 *)

\* The self-promotion timer of state s is still sleeping.
HasPromoteTimer(s) ==
    \E k \in 1..Len(s.callbacks) :
        s.callbacks[k].func = "self_promote" /\ s.callbacks[k].state = "pending"

\* In this step the self-promotion timer of instance i goes away without
\* having fired.
TimerCancelled(i) ==
    HasPromoteTimer(st[i]) /\ ~HasPromoteTimer(st'[i]) /\ ~PromoteFires(i)

\* The envelopes instance i handles in this step.
HandledNow(i) == {chan[k] : k \in read'[i] \ read[i]}

\* An instance that handles a CONNECT while its self-promotion timer sleeps
\* answers the sender with a CONNECT_ACK "5" (its version, no +), stays a
\* non-master and keeps the timer.
RepliesUnmarked(i) ==
    \A env \in HandledNow(i) :
        (env.message_type = CONNECT /\ HasPromoteTimer(st[i])) =>
            /\ chan' = Append(chan, [from_id |-> i, to_id |-> env.from_id,
                                     message_type |-> CONNECT_ACK,
                                     message |-> <<"5">>, attachment |-> ""])
            /\ ~st'[i].im_master
            /\ HasPromoteTimer(st'[i])

HandledMarkedAck(i) ==
    \E env \in HandledNow(i) :
        /\ env.message_type = CONNECT_ACK
        /\ env.message # <<>>
        /\ env.message[Len(env.message)] = "+"

HandledDisplay(i) ==
    \E env \in HandledNow(i) : env.message_type = ENSURE_DISPLAY

\* C8 as stated: an instance that receives CONNECT before its self-promotion
\* timer has fired replies with an unmarked CONNECT_ACK carrying its version
\* and does not become master; its self-promotion timer is cancelled only by
\* a +-marked CONNECT_ACK, by no other envelope kind.
C8_OnlyMarkedAckCancels ==
    [][\A i \in Ids :
          /\ RepliesUnmarked(i)
          /\ TimerCancelled(i) => HandledMarkedAck(i)]_vars

\* C8, amended: an instance that receives CONNECT before its self-promotion
\* timer has fired replies with an unmarked CONNECT_ACK carrying its version
\* and does not become master; its self-promotion timer is cancelled only by
\* a +-marked CONNECT_ACK or by an ENSURE_DISPLAY, by no other envelope kind.
C8_MarkedAckOrDisplayCancels ==
    [][\A i \in Ids :
          /\ RepliesUnmarked(i)
          /\ TimerCancelled(i) => (HandledMarkedAck(i) \/ HandledDisplay(i))]_vars

\* An instance that answered a peer's CONNECT with an unmarked CONNECT_ACK has
\* never been master and has lost its self-promotion timer to an
\* ENSURE_DISPLAY: it handled no +-marked CONNECT_ACK.
C8_Witness ==
    \E i \in Up :
        /\ i \notin everMaster
        /\ st[i].callbacks = <<>>
        /\ \E k \in read[i] : chan[k].message_type = CONNECT
        /\ \E k \in read[i] : chan[k].message_type = ENSURE_DISPLAY
        /\ \A k \in read[i] :
              chan[k].message_type = CONNECT_ACK =>
                  chan[k].message[Len(chan[k].message)] # "+"
        /\ \E k \in 1..Len(chan) :
              /\ chan[k].from_id = i
              /\ chan[k].message_type = CONNECT_ACK
              /\ chan[k].message = <<"5">>

-----------------------------------------------------------------------------
(* C9 *)

\* The payload the master's broadcast must carry for call ev once the result
\* is stored: nothing without a return name, else "x=" followed by the tag
\* and text of the value held under x.
ExpectedPayload(ev, g) ==
    IF ev = 2 THEN <<>>
    ELSE CASE g[<<"x">>].t = "int" -> <<"x", "=", "i", "4", "2">>
           [] g[<<"x">>].t = "str" -> <<"x", "=", "s", "h", "i">>
           [] OTHER -> <<"x", "=">>

\* The master path of call ev raised: the result has no encoding.
Raised(ev, g) == ev = 1 /\ g[<<"x">>].t = "obj"

\* C9: a call of ensure_display on a master posts nothing while the action
\* runs; when the action returns it has run exactly once for this instance,
\* and, unless the encoding raises, exactly one envelope is posted then: an
\* ENSURE_DISPLAY broadcast (to -1) whose payload is "<return_name>=<tag>
\* <value>" when a return name is given and empty otherwise.
C9_MasterBroadcast ==
    [][\A i \in Ids : \A ev \in Events :
          /\ (ev \in inprog'[i] /\ ev \notin inprog[i]) =>
                st[i].im_master /\ chan' = chan /\ execd' = execd
          /\ Returns(i, ev) =>
                /\ execd'[ev] = Append(execd[ev], i)
                /\ Cardinality({k \in 1..Len(execd'[ev]) : execd'[ev][k] = i}) = 1
                /\ IF Raised(ev, st'[i].globals) THEN chan' = chan
                   ELSE chan' = Append(chan,
                           [from_id |-> i, to_id |-> -1,
                            message_type |-> ENSURE_DISPLAY,
                            message |-> ExpectedPayload(ev, st'[i].globals),
                            attachment |-> ""])]_vars

\* The ENSURE_DISPLAY envelopes instance i has posted.
DisplaysFrom(i) ==
    {k \in 1..Len(chan) :
        chan[k].from_id = i /\ chan[k].message_type = ENSURE_DISPLAY}

\* A master's call with return name x is over: the action ran once, returned
\* the string "hi", and the one ENSURE_DISPLAY the master posted carries
\* "x=shi".
C9_Witness ==
    \E i \in Up :
        /\ st[i].im_master
        /\ 1 \in called[i]
        /\ 1 \notin inprog[i]
        /\ execd[1] = <<i>>
        /\ Cardinality(DisplaysFrom(i)) = 1
        /\ \A k \in DisplaysFrom(i) :
              chan[k].to_id = -1 /\ chan[k].message = <<"x", "=", "s", "h", "i">>

-----------------------------------------------------------------------------
(* C10 *)

\* In this step instance i, not a master, calls ensure_display for call ev.
FollowerCalls(i, ev) ==
    ev \in called'[i] /\ ev \notin called[i] /\ ~st[i].im_master

\* The hub of instance i holds an ENSURE_DISPLAY recorded within the window of
\* call ev (2 seconds for call 1, 1 second for call 2) and, for call 1,
\* whose key is x.
RecentDisplay(i, ev) ==
    LET queue == st[i].message_hub[ENSURE_DISPLAY]
    IN  \E k \in 1..Len(queue) :
            /\ queue[k].timestamp > now - (IF ev = 1 THEN 2 ELSE 1)
            /\ ev = 1 =>
                  /\ Len(queue[k].message) >= 2
                  /\ queue[k].message[1] = "x"
                  /\ queue[k].message[2] = "="

\* C10: a call of ensure_display on a non-master never runs the action at call
\* time; when the hub holds a recent enough ENSURE_DISPLAY (of the call's
\* return name, if it has one) the callbacks are left as they are, and
\* otherwise exactly one timed callback with the window as its delay is
\* appended to them.
C10_FollowerCall ==
    [][\A i \in Ids : \A ev \in Events :
          FollowerCalls(i, ev) =>
              /\ execd' = execd
              /\ inprog'[i] = inprog[i]
              /\ chan' = chan
              /\ IF RecentDisplay(i, ev)
                 THEN st'[i].callbacks = st[i].callbacks
                 ELSE st'[i].callbacks =
                        Append(st[i].callbacks,
                               [func |-> "ensure_display_backup",
                                due |-> now + (IF ev = 1 THEN 2 ELSE 1),
                                timeout |-> IF ev = 1 THEN 2 ELSE 1,
                                ev |-> ev,
                                state |-> "pending"])]_vars

\* A follower has called ensure_display with return name x while its hub held
\* an ENSURE_DISPLAY of key y inside the window and none of key x: the
\* callback was scheduled.
C10_Witness ==
    \E i \in Up :
        /\ ~st[i].im_master
        /\ 1 \in called[i]
        /\ \E c \in 1..Len(st[i].callbacks) :
              LET cb == st[i].callbacks[c]
                  queue == st[i].message_hub[ENSURE_DISPLAY]
              IN  /\ cb.func = "ensure_display_backup"
                  /\ cb.ev = 1
                  /\ cb.state = "pending"
                  /\ cb.due = cmds[1] + 2
                  /\ \E k \in 1..Len(queue) :
                        /\ queue[k].message # <<>>
                        /\ queue[k].message[1] = "y"
                        /\ queue[k].timestamp > cmds[1] - 2
                        /\ queue[k].timestamp <= cmds[1]
                  /\ \A k \in 1..Len(queue) :
                        queue[k].message = <<>> \/ queue[k].message[1] = "y"

-----------------------------------------------------------------------------
(* C11 *)

\* Payloads an ENSURE_DISPLAY envelope may carry: none, well-formed ones, and
\* one whose value has no type tag the decoder knows.
AnyDisplayPayloads ==
    {<<>>, <<"x", "=", "i", "4", "2">>, <<"x", "=">>, <<"x", "=", "q", "1">>}

\* C11: in every reachable state of a connected instance, handling an
\* ENSURE_DISPLAY envelope, from whatever peer and with whatever payload,
\* whether the handler returns or raises, leaves the callbacks list empty and
\* im_master as it was; and every callback the list holds, fired ones
\* included, was scheduled no earlier than the latest ENSURE_DISPLAY the
\* instance has recorded, so no callback that was sleeping when an
\* ENSURE_DISPLAY was handled has run since.
C11_DisplayCancelsCallbacks ==
    \A i \in Up :
        /\ \A from_id \in Peers \ {i} : \A message \in AnyDisplayPayloads :
              LET r == parse_bot_com(i, st[i], from_id, ENSURE_DISPLAY,
                                     message, "", now)
              IN  r.s.callbacks = <<>> /\ r.s.im_master = st[i].im_master
        /\ \A cb \in Range(st[i].callbacks) :
              \A q \in Range(st[i].message_hub[ENSURE_DISPLAY]) :
                  q.timestamp <= cb.due - cb.timeout

\* A follower called ensure_display while its hub held no ENSURE_DISPLAY, so
\* a window timer was scheduled; the master's ENSURE_DISPLAY reached it before
\* the window ended; the window is now over and the callbacks list is empty.
C11_Witness ==
    \E i \in Up : \E ev \in called[i] :
        LET queue == st[i].message_hub[ENSURE_DISPLAY]
        IN  /\ ~st[i].im_master
            /\ i \notin everMaster
            /\ Len(queue) = 1
            /\ queue[1].timestamp > cmds[ev]
            /\ queue[1].timestamp < cmds[ev] + (IF ev = 1 THEN 2 ELSE 1)
            /\ now >= cmds[ev] + (IF ev = 1 THEN 2 ELSE 1)
            /\ st[i].callbacks = <<>>

-----------------------------------------------------------------------------
(* C12 *)

\* C12: in every reachable state of a connected instance, handling a
\* well-formed ENSURE_DISPLAY envelope raises nothing; when the sender is not
\* the instance's master_instance, the previous master (if there is one) is
\* taken out of alive_instances and master_instance becomes the sender; when
\* the sender is the master_instance, both are left as they were.
C12_DisplaySwitchesMaster ==
    \A i \in Up : \A from_id \in Peers \ {i} : \A message \in DisplayPayloads :
        LET s == st[i]
            r == parse_bot_com(i, s, from_id, ENSURE_DISPLAY, message, "", now)
        IN  /\ r.err = ""
            /\ IF s.master_instance = <<from_id>>
               THEN /\ r.s.alive_instances = s.alive_instances
                    /\ r.s.master_instance = s.master_instance
               ELSE /\ r.s.alive_instances =
                          s.alive_instances \ Range(s.master_instance)
                    /\ r.s.master_instance = <<from_id>>

-----------------------------------------------------------------------------
(* C13 *)

\* The +-marked CONNECT_ACK envelopes instance i handles in this step.
MarkedAcksNow(i) ==
    {env \in HandledNow(i) :
        /\ env.message_type = CONNECT_ACK
        /\ env.message # <<>>
        /\ env.message[Len(env.message)] = "+"}

\* Instance i has handled a +-marked CONNECT_ACK.
HasHandledMarkedAck(i) ==
    \E k \in read[i] :
        /\ chan[k].message_type = CONNECT_ACK
        /\ chan[k].message # <<>>
        /\ chan[k].message[Len(chan[k].message)] = "+"

\* C13: an instance that handles a +-marked CONNECT_ACK while its
\* self-promotion timer sleeps is left without that timer, with
\* master_instance set to the sender and with its own id and the sender's in
\* alive_instances; and the self-promotion timer of an instance that has
\* handled a +-marked CONNECT_ACK never fires.
C13_MarkedAckCancelsPromotion ==
    [][\A i \in Ids :
          /\ \A env \in MarkedAcksNow(i) :
                HasPromoteTimer(st[i]) =>
                    /\ ~HasPromoteTimer(st'[i])
                    /\ ~PromoteFires(i)
                    /\ st'[i].master_instance = <<env.from_id>>
                    /\ {i, env.from_id} \subseteq st'[i].alive_instances
          /\ HasHandledMarkedAck(i) => ~PromoteFires(i)]_vars

\* A newcomer handled the master's +-marked CONNECT_ACK, and the delay of its
\* self-promotion timer has passed since: it points at the master, holds both
\* ids in alive_instances and has never been master.
C13_Witness ==
    \E i \in Up :
        /\ i \notin everMaster
        /\ HasHandledMarkedAck(i)
        /\ \E q \in Range(st[i].message_hub[CONNECT_ACK]) :
              now >= q.timestamp + PROMOTE_DELAY
        /\ ~st[i].im_master
        /\ st[i].master_instance = <<2>>
        /\ {1, 2} \subseteq st[i].alive_instances

-----------------------------------------------------------------------------
(* C14 *)

\* The payloads of the CONNECT envelopes of instances running the version
\* before this one (4), this one (5) and the next one (6).
ConnectPayloads == {StrInt(VERSION - 1), StrInt(VERSION), StrInt(VERSION + 1)}

\* C14: in every reachable state of a connected instance, handling a CONNECT
\* of sender s posts, when the instance is master, exactly a CONNECT_ACK "5+",
\* a SEND_DB and a SEND_WORKSPACE, in this order and all addressed to s, and
\* leaves s in alive_instances; when it is not master it posts exactly one
\* CONNECT_ACK "5" addressed to s, and no SEND_DB or SEND_WORKSPACE.
C14_MasterWelcome ==
    \A i \in Up : \A s \in Peers \ {i} : \A message \in ConnectPayloads :
        LET r == parse_bot_com(i, st[i], s, CONNECT, message, "", now)
        IN  IF st[i].im_master
            THEN /\ Len(r.out) = 3
                 /\ \A k \in 1..3 : r.out[k].from_id = i /\ r.out[k].to_id = s
                 /\ r.out[1].message_type = CONNECT_ACK
                 /\ r.out[1].message = <<"5", "+">>
                 /\ r.out[2].message_type = SEND_DB
                 /\ r.out[3].message_type = SEND_WORKSPACE
                 /\ s \in r.s.alive_instances
            ELSE /\ Len(r.out) = 1
                 /\ r.out[1].from_id = i /\ r.out[1].to_id = s
                 /\ r.out[1].message_type = CONNECT_ACK
                 /\ r.out[1].message = <<"5">>

-----------------------------------------------------------------------------
(* C15 *)

\* C15: in every reachable state of a connected instance, handling a CONNECT
\* that carries a version lower than, equal to or greater than the
\* instance's own leaves the sender's id in alive_instances.
C15_ConnectAddsSender ==
    \A i \in Up : \A from_id \in Peers \ {i} : \A message \in ConnectPayloads :
        from_id \in parse_bot_com(i, st[i], from_id, CONNECT, message, "", now)
                        .s.alive_instances

-----------------------------------------------------------------------------
(* C16 *)

\* C16: in every reachable state of a connected instance, handling a
\* LET_MASTER of sender s raises nothing, posts nothing, and leaves
\* im_master False and master_instance = s, with alive_instances,
\* initialized and the callbacks as they were.
C16_LetMasterDemotes ==
    \A i \in Up : \A s \in Peers \ {i} :
        LET r == parse_bot_com(i, st[i], s, LET_MASTER, <<>>, "", now)
        IN  /\ r.err = ""
            /\ r.out = <<>>
            /\ ~r.s.im_master
            /\ r.s.master_instance = <<s>>
            /\ r.s.alive_instances = st[i].alive_instances
            /\ r.s.initialized = st[i].initialized
            /\ r.s.callbacks = st[i].callbacks

\* An instance that had promoted itself has handled the LET_MASTER of a peer
\* while a window timer of its own was sleeping: it is no longer master,
\* points at the peer, is still initialized and still holds the timer.
C16_Witness ==
    \E i \in Up : \E k \in read[i] :
        /\ chan[k].message_type = LET_MASTER
        /\ i \in everMaster
        /\ ~st[i].im_master
        /\ st[i].initialized
        /\ st[i].master_instance = <<chan[k].from_id>>
        /\ \E c \in Pending(i) :
              /\ st[i].callbacks[c].func = "ensure_display_backup"
              /\ \E q \in Range(st[i].message_hub[LET_MASTER]) :
                    st[i].callbacks[c].due - st[i].callbacks[c].timeout
                        < q.timestamp

-----------------------------------------------------------------------------
(* C17 *)

\* Snapshots a newcomer may be sent: the workspace of an idle master, and one
\* with a tracked lobby, an okib channel, a member and a gatherer.
IdleSnapshot ==
    [open_lobbies |-> <<>>,
     lobby_message_ids |-> [k \in {} |-> NoneValue],
     okib_channel_id |-> None,
     okib_message_id |-> NoneValue,
     list_content |-> StrValue(<<>>),
     okib_member_ids |-> <<>>,
     laterib_member_ids |-> <<>>,
     noib_member_ids |-> <<>>,
     gatherer_id |-> None,
     gathered |-> BoolValue(FALSE),
     gather_time |-> IntValue(0)]

BusySnapshot ==
    [IdleSnapshot EXCEPT !.open_lobbies = <<7>>,
                         !.lobby_message_ids = [k \in {<<"l", "7">>} |-> IntValue(70)],
                         !.okib_channel_id = Some(20),
                         !.okib_message_id = IntValue(42),
                         !.okib_member_ids = <<10>>,
                         !.gatherer_id = Some(10)]

\* Platforms of the receiver: DiscordObjects not built yet; the okib channel
\* out of reach; member 10 out of reach; everything in reach.
SamplePlatforms ==
    {[Guild EXCEPT !.ready = FALSE],
     [Guild EXCEPT !.channels = {21}],
     [Guild EXCEPT !.members = {11}],
     Guild}

\* C17: in every reachable state of a connected instance, when
\* update_workspace returns False on the snapshot of a SEND_WORKSPACE
\* envelope on an instance that is not initialized, handling that envelope
\* posts no SEND_WORKSPACE_ACK and leaves initialized False.
C17_FailedApplyWithheld ==
    \A i \in Up : \A from_id \in Peers \ {i} :
        \A platform \in SamplePlatforms : \A obj \in {IdleSnapshot, BusySnapshot} :
            LET applied == update_workspace(platform, st[i].globals, Pickle(obj))
                r == OnSendWorkspaceOn(platform, i, st[i], from_id, Pickle(obj))
            IN  (~st[i].initialized /\ applied.err = "" /\ ~applied.ok) =>
                    /\ \A k \in 1..Len(r.out) :
                          r.out[k].message_type # SEND_WORKSPACE_ACK
                    /\ ~r.s.initialized

-----------------------------------------------------------------------------
(* C18 *)

\* The value of the global name under g, or Unassigned when the name has never
\* been assigned.
Unassigned == [t |-> "unassigned"]
GlobalOf(g, name) == IF name \in DOMAIN g THEN g[name] ELSE Unassigned

\* The workspace fields of the globals g: the tracked open-lobby list, the
\* lobby message-id bindings, the gather message id, the list content, the
\* member lists, the gatherer, the gathered flag and the gather time.
WorkspaceFields(g) ==
    <<GlobalOf(g, OPEN_LOBBIES), LobbyMessageIds(g), GlobalOf(g, OKIB_MESSAGE_ID),
      GlobalOf(g, LIST_CONTENT), GlobalOf(g, OKIB_MEMBERS),
      GlobalOf(g, LATERIB_MEMBERS), GlobalOf(g, NOIB_MEMBERS),
      GlobalOf(g, GATHERER), GlobalOf(g, GATHERED), GlobalOf(g, GATHER_TIME)>>

\* C18: in every reachable state of a connected instance, on whatever
\* platform, when update_workspace returns False on a snapshot, the
\* workspace fields are what they were before the call.
C18_FailedApplyChangesNothing ==
    \A i \in Up : \A platform \in Platforms :
        \A obj \in {IdleSnapshot, BusySnapshot} :
            LET applied == update_workspace(platform, st[i].globals, Pickle(obj))
            IN  (applied.err = "" /\ ~applied.ok) =>
                    WorkspaceFields(applied.g) = WorkspaceFields(st[i].globals)

-----------------------------------------------------------------------------
(* C19 *)

\* The member the failover of state s drops: the master it points at, or the
\* largest member when it points at none.
StaleMember(s) ==
    IF s.master_instance # None THEN s.master_instance[1]
    ELSE Max(s.alive_instances)

\* C19: when a window timer of a non-master fires (no ENSURE_DISPLAY has
\* cancelled it since it was scheduled) and the member to drop is in
\* alive_instances with another member left, that member is out of
\* alive_instances afterwards; then, if the largest member left is the
\* instance's own id, the instance is master and has broadcast LET_MASTER,
\* and otherwise its master_instance is None.
C19_FailoverRuns ==
    [][\A f \in Ids :
          LET s == st[f]
              left == s.alive_instances \ {StaleMember(s)}
          IN  (/\ BackupFires(f)
               /\ ~s.im_master
               /\ s.alive_instances # {}
               /\ StaleMember(s) \in s.alive_instances
               /\ left # {}) =>
                  /\ StaleMember(s) \notin st'[f].alive_instances
                  /\ IF Max(left) = f
                     THEN /\ st'[f].im_master
                          /\ st'[f].master_instance = <<f>>
                          /\ \E k \in (Len(chan) + 1)..Len(chan') :
                                /\ chan'[k].from_id = f
                                /\ chan'[k].message_type = LET_MASTER
                     ELSE st'[f].master_instance = None]_vars

-----------------------------------------------------------------------------
(* C20 *)

\* The window timer k of instance f fires in this step.
BackupFiresAt(f, k) ==
    /\ k \in Pending(f)
    /\ st[f].callbacks[k].func = "ensure_display_backup"
    /\ Len(st'[f].callbacks) >= k
    /\ st'[f].callbacks[k].state = "fired"

\* The other window timers of f that expire together with timer k: the ones
\* with the same deadline.
ExpiringWith(f, k) ==
    {j \in 1..Len(st[f].callbacks) \ {k} :
        /\ st[f].callbacks[j].func = "ensure_display_backup"
        /\ st[f].callbacks[j].due = st[f].callbacks[k].due}

\* C20: when window timers of a non-master expire together, the first of
\* them to fire takes exactly one member out of alive_instances, the member
\* the failover drops; one that fires after another of them has fired takes
\* none out; and no firing takes more than one member out.
C20_SingleRemoval ==
    [][\A f \in Ids : \A k \in 1..Len(st[f].callbacks) :
          (/\ BackupFiresAt(f, k)
           /\ ~st[f].im_master
           /\ ExpiringWith(f, k) # {}
           /\ st[f].alive_instances # {}
           /\ StaleMember(st[f]) \in st[f].alive_instances) =>
              LET removed == st[f].alive_instances \ st'[f].alive_instances
                  first == \A j \in ExpiringWith(f, k) :
                               st[f].callbacks[j].state = "pending"
              IN  /\ Cardinality(removed) <= 1
                  /\ first => removed = {StaleMember(st[f])}
                  /\ ~first => removed = {}]_vars

-----------------------------------------------------------------------------
(* C21 *)

\* Texts a message of the COM channel may hold: the payloads of com(), with
\* and without "/" in the message, the same with a field too many or the
\* last field missing, and the empty text.
SampleContents ==
    LET messages == {<<>>, StrInt(VERSION) \o <<"+">>, <<"x", "=", "i", "4">>,
                     <<"x", "=", "s", "a", "/", "b">>, <<"/">>}
        wellformed == {Content(Envelope(f, to, mt, m, "")) :
                          f \in Peers, to \in {BROADCAST} \cup Ids,
                          mt \in MessageType, m \in messages}
        short == {StrInt(f) \o <<"/">> \o StrInt(to) \o <<"/">> \o TypeText(mt) :
                          f \in Peers, to \in {BROADCAST} \cup Ids,
                          mt \in MessageType}
    IN  wellformed \cup short \cup {<<>>}

MalformedContents == {c \in SampleContents : Len(Split(c, "/")) # 4}

\* C21: on_message on a text whose split on "/" does not give 4 fields
\* raises nothing, posts nothing and leaves the ComState (role, membership,
\* master, callbacks, hub) as it was; and on the payload of every envelope
\* instances have posted, the handler of the text is the handler of the
\* envelope.
C21_MalformedDropped ==
    \A i \in Up :
        /\ \A content \in MalformedContents :
              on_message_text(i, st[i], content, "", now) = Result(st[i], <<>>, "")
        /\ \A k \in 1..Len(chan) :
              on_message_text(i, st[i], Content(chan[k]), chan[k].attachment, now)
                  = on_message(i, st[i], chan[k], now)

\* An instance that holds a pending callback, a master and a recorded
\* envelope, and that is not the master, so that a LET_MASTER, a CONNECT or
\* an ENSURE_DISPLAY it accepted would change it.
C21_Witness ==
    \E i \in Up :
        /\ \E k \in 1..Len(st[i].callbacks) : st[i].callbacks[k].state = "pending"
        /\ \E mt \in MessageType : st[i].message_hub[mt] # <<>>
        /\ st[i].alive_instances # {}
        /\ chan # <<>>

-----------------------------------------------------------------------------
(* C22 *)

\* C22: an entry of a hub recorded more than MAX_AGE_SECONDS ago, purged or
\* not, does not count in got_message for any window up to its age: the
\* answer, with or without a return name, is the answer of the hub without
\* that entry, and the entry alone gives False.
C22_ExpiredEntryIgnored ==
    \A i \in Up : \A K \in MessageType :
        \A k \in 1..Len(st[i].message_hub[K]) :
            LET hub == st[i].message_hub
                elapsed == now - hub[K][k].timestamp
                without == [hub EXCEPT ![K] = SubSeq(@, 1, k - 1)
                                                \o SubSeq(@, k + 1, Len(@))]
                alone == [NewHub EXCEPT ![K] = <<hub[K][k]>>]
                windows == {w \in {1, 2, MAX_AGE_SECONDS - 1, MAX_AGE_SECONDS,
                                   MAX_AGE_SECONDS + 1, elapsed} : w <= elapsed}
                names == IF K = ENSURE_DISPLAY THEN {None, Some(NameX)} ELSE {None}
            IN  elapsed > MAX_AGE_SECONDS =>
                    \A w \in windows : \A name \in names :
                        /\ got_message(hub, K, w, name, now)
                               = got_message(without, K, w, name, now)
                        /\ ~got_message(alone, K, w, name, now).found

\* A hub holds an entry recorded during the run and older than
\* MAX_AGE_SECONDS next to a younger one of the same type, which got_message
\* finds in a window that is shorter than the age of the old one.
C22_Witness ==
    \E i \in Up : \E K \in MessageType :
        LET queue == st[i].message_hub[K]
        IN  \E k \in 1..Len(queue) :
                /\ queue[k].timestamp >= 0
                /\ now - queue[k].timestamp > MAX_AGE_SECONDS
                /\ got_message(st[i].message_hub, K, MAX_AGE_SECONDS, None, now).found

-----------------------------------------------------------------------------
(* C30 *)

\* C30: after a step in which an instance recorded an envelope in its hub, no
\* queue of the hub holds an entry MAX_AGE_SECONDS or more older than the
\* time of the step, the envelope just handled is the last entry of the
\* queue of its type, stamped with that time, and every queue holds, in the
\* order it held them, the entries it held that are not that old.
C30_EagerPurge ==
    [][\A i \in Ids :
          st'[i].message_hub # st[i].message_hub =>
              LET before == st[i].message_hub
                  after == st'[i].message_hub
              IN  /\ \A mt \in MessageType : \A k \in 1..Len(after[mt]) :
                        now - after[mt][k].timestamp < MAX_AGE_SECONDS
                  /\ \E p \in read'[i] \ read[i] :
                        LET kind == chan[p].message_type
                        IN  /\ after[kind] # <<>>
                            /\ after[kind][Len(after[kind])]
                                  = [timestamp |-> now, message |-> chan[p].message]
                            /\ \A mt \in MessageType :
                                  LET kept == IF mt = kind
                                              THEN SubSeq(after[mt], 1, Len(after[mt]) - 1)
                                              ELSE after[mt]
                                  IN  kept = SelectSeq(before[mt],
                                                 LAMBDA m : now - m.timestamp
                                                                < MAX_AGE_SECONDS)]_vars

\* An instance recorded three envelopes of one type, the first of them
\* MAX_AGE_SECONDS or more before the last: its queue holds the two younger
\* ones, and the entries of the connection, of other types, are gone.
C30_Witness ==
    \E i \in Up : \E mt \in MessageType :
        /\ Cardinality({p \in read[i] : chan[p].message_type = mt}) = 3
        /\ Len(st[i].message_hub[mt]) = 2
        /\ st[i].message_hub[mt][1].message # st[i].message_hub[mt][2].message
        /\ \A other \in MessageType \ {mt} : st[i].message_hub[other] = <<>>

-----------------------------------------------------------------------------
(* C23 *)

-----------------------------------------------------------------------------
(* C24 *)

\* C24: at most one lobby task of an instance is inside the section the lock
\* guards (deleting lobby messages, or in update_ib_lobbies between its read
\* and its replacement of _open_lobbies), so getgames and refresh_ib_lobbies
\* are never both inside; and while a task is in update_ib_lobbies the list
\* is still the one it read.
C24_RefreshExclusion ==
    \A i \in Ids :
        LET inside == {t \in Tasks : lobby[i].pc[t] \in {"delete", "query"}}
        IN  /\ Cardinality(inside) <= 1
            /\ ~(Periodic \in inside /\ inside \cap Manual # {})
            /\ \A t \in inside :
                  lobby[i].pc[t] = "query" =>
                      lobby[i].prev[t] = st[i].globals[OPEN_LOBBIES].items

\* refresh_ib_lobbies is in update_ib_lobbies, awaiting the APIs, with a
\* lobby tracked, a getgames waits for the lock and the other getgames has
\* been through the section.
C24_Witness ==
    \E i \in Up :
        /\ lobby[i].pc[Periodic] = "query"
        /\ lobby[i].prev[Periodic] # <<>>
        /\ \E m \in Manual : lobby[i].pc[m] = "waiting"
        /\ \E m \in Manual : lobby[i].pc[m] = "done"

-----------------------------------------------------------------------------
(* C25 *)

\* The SEND_WORKSPACE envelopes instance i has handled, as indices of chan.
HandledWorkspace(i) ==
    {k \in read[i] : /\ chan[k].message_type = SEND_WORKSPACE
                     /\ chan[k].to_id = i
                     /\ chan[k].from_id # i}

\* C25: whenever a newcomer has handled the snapshot a master sent it with
\* send_workspace, the apply of that snapshot on the newcomer's fresh globals
\* succeeds, the newcomer is initialized, and its workspace fields (tracked
\* open lobbies, lobby message-id bindings, gather message id, list content,
\* member lists, gatherer, gathered flag, gather time) equal the sender's.
C25_WorkspaceRoundTrip ==
    \A i \in Ids : \A k \in HandledWorkspace(i) :
        LET applied == update_workspace(Guild, ModuleGlobals, chan[k].attachment)
        IN  /\ applied.ok
            /\ applied.err = ""
            /\ st[i].initialized
            /\ WorkspaceFields(st[i].globals) = WorkspaceFields(applied.g)
            /\ WorkspaceFields(st[i].globals)
                  = WorkspaceFields(st[chan[k].from_id].globals)

\* A newcomer has handled the snapshot of a master with a tracked lobby, a
\* lobby message, okib members and a gatherer.
C25_Witness ==
    \E i \in Ids : \E k \in HandledWorkspace(i) :
        /\ GlobalOf(st[i].globals, OPEN_LOBBIES) = ListValue(<<7>>)
        /\ DOMAIN LobbyMessageIds(st[i].globals) # {}
        /\ GlobalOf(st[i].globals, OKIB_MEMBERS) = MembersValue(<<10>>)
        /\ GlobalOf(st[i].globals, GATHERER) = MemberValue(10)
        /\ GlobalOf(st[i].globals, OKIB_MESSAGE_ID) = IntValue(42)

-----------------------------------------------------------------------------
(* C26 *)

\* Return names and results of the three encodable kinds: integers of either
\* sign, strings (empty, plain, holding "=" or "/") and None.
RoundTripNames == {NameX, LobbyKey(7)}
RoundTripResults ==
    {IntValue(42), IntValue(0), IntValue(0 - 7),
     StrValue(<<>>), StrValue(<<"h", "i">>), StrValue(<<"a", "=", "b">>),
     StrValue(<<"a", "/", "b">>), NoneValue}

\* What a follower j holds under name once the envelope env reached its
\* on_message.
HeldAfter(j, env, name) ==
    GlobalOf(on_message_text(j, st[j], Content(env), "", now).s.globals, name)

\* C26: for every return name and every result that is an integer, a string
\* or None, the payload a master's ensure_display builds is decoded by
\* parse_ensure_display_value to exactly (return_name, result), and a
\* follower that receives the envelope holds under return_name the value the
\* master stored.
C26_PayloadRoundTrip ==
    \A i \in Up : st[i].im_master =>
        \A name \in RoundTripNames : \A result \in RoundTripResults :
            LET r == display(i, st[i], Some(name), result)
            IN  /\ r.err = ""
                /\ Len(r.out) = 1
                /\ GlobalOf(r.s.globals, name) = result
                /\ parse_ensure_display_value(r.out[1].message)
                      = [key |-> name, value |-> result, err |-> ""]
                /\ \A j \in Up \ {i} : HeldAfter(j, r.out[1], name) = result

-----------------------------------------------------------------------------
(* C27 *)

\* The value instance i holds under the return name of call ev in state s.
StoredFor(s, ev) ==
    IF ReturnNameOf(ev) = None THEN Unassigned
    ELSE GlobalOf(s.globals, ReturnNameOf(ev)[1])

\* C27: in every step in which the action awaited by ensure_display on a
\* master raises, the caller of ensure_display gets an error, no envelope is
\* posted on the COM channel, and the value stored under return_name is what
\* it was.
C27_ActionErrorPropagates ==
    [][\A i \in Ids : \A f \in raised'[i] \ raised[i] :
            /\ f.err # ""
            /\ chan' = chan
            /\ StoredFor(st'[i], f.ev) = StoredFor(st[i], f.ev)]_vars

\* The action of the call with a return name raised on the master, which
\* held a value under that name.
C27_Witness ==
    \E i \in Ids : \E f \in raised[i] :
        /\ st[i].im_master
        /\ ReturnNameOf(f.ev) # None
        /\ StoredFor(st[i], f.ev) \notin {Unassigned, NoneValue}

-----------------------------------------------------------------------------
(* C28 *)

\* C28: in every step in which an instance handles a SEND_DB envelope with
\* an attachment, the DB file it had (if any) becomes the archive, the
\* attachment becomes the DB file, and the one envelope posted is the
\* SEND_DB_ACK to the sender; the handler archives, then writes, then
\* acknowledges, so the acknowledgement is never on the channel before the
\* write.
C28_DbReplication ==
    [][\A i \in Ids : \A k \in read'[i] \ read[i] :
            (chan[k].message_type = SEND_DB /\ chan[k].attachment # "") =>
                /\ st'[i].disk.db = chan[k].attachment
                /\ st[i].disk.db # NoFile => st'[i].disk.archive = st[i].disk.db
                /\ st[i].disk.db = NoFile => st'[i].disk.archive = st[i].disk.archive
                /\ st'[i].disk.archive_dir
                /\ chan' = Append(chan, Envelope(i, chan[k].from_id, SEND_DB_ACK,
                                                 <<>>, ""))]_vars

\* A newcomer that had a DB of its own has handled the master's SEND_DB: its
\* DB file is the master's and its archive the DB it had.
C28_Witness ==
    \E i \in Ids : \E k \in read[i] :
        /\ chan[k].message_type = SEND_DB
        /\ chan[k].attachment = "db"
        /\ st[i].disk.db = "db"
        /\ st[i].disk.archive = "old"

-----------------------------------------------------------------------------
(* C29 *)

\* The versions a peer may run: older than, equal to and newer than VERSION.
PeerVersions == {VERSION - 1, VERSION, VERSION + 1}

\* What instance i does with a CONNECT of version v from the peer from_id.
AfterConnect(i, from_id, v) ==
    on_message(i, st[i], Envelope(from_id, BROADCAST, CONNECT, StrInt(v), ""), now)

\* What instance i does with a CONNECT_ACK of version v from the peer
\* from_id, with the mark of a master (mark = <<"+">>) or without.
AfterConnectAck(i, from_id, v, mark) ==
    on_message(i, st[i], Envelope(from_id, i, CONNECT_ACK, StrInt(v) \o mark, ""), now)

\* The election state of a ComState.
Election(s) == <<s.im_master, s.master_instance, s.alive_instances>>

\* C29: a connected instance that receives CONNECT runs the self-update and
\* restart exactly when the version is greater than its own, never on
\* CONNECT_ACK, and im_master, master_instance and alive_instances after a
\* CONNECT or a CONNECT_ACK are the same whatever version it carries.
C29_VersionOnlyUpdates ==
    \A i \in Up : \A from_id \in Peers \ {i} : \A v \in PeerVersions :
        /\ AfterConnect(i, from_id, v).reset = (v > VERSION)
        /\ Election(AfterConnect(i, from_id, v).s)
              = Election(AfterConnect(i, from_id, VERSION).s)
        /\ \A mark \in {<<>>, <<"+">>} :
              /\ ~AfterConnectAck(i, from_id, v, mark).reset
              /\ Election(AfterConnectAck(i, from_id, v, mark).s)
                    = Election(AfterConnectAck(i, from_id, VERSION, mark).s)

-----------------------------------------------------------------------------
(* C31 *)

\* The windows and return names got_message is asked with.
AskedWindows == {1, 2, MAX_AGE_SECONDS}
AskedNames == {NameX, LobbyKey(7)}

\* The entries of a queue recorded less than window seconds before t.
RecordedWithin(queue, window, t) ==
    {k \in 1..Len(queue) : t - queue[k].timestamp < window}

\* The text of a payload before its first "=".
KeyBefore(payload) ==
    LET at == {n \in 1..Len(payload) : payload[n] = "="}
    IN  IF at = {} THEN payload
        ELSE SubSeq(payload, 1, (CHOOSE n \in at : \A m \in at : n <= m) - 1)

\* C31: in every reachable state of a hub, got_message(kind, window) is True
\* exactly when the queue of kind holds an entry recorded less than window
\* seconds ago, and got_message(ENSURE_DISPLAY, window, return_name) is True
\* exactly when one such entry has a non-empty payload whose key is
\* return_name; neither raises.
C31_GotMessageIff ==
    \A i \in Ids : \A window \in AskedWindows :
        LET hub == st[i].message_hub
        IN  /\ \A kind \in MessageType :
                  got_message(hub, kind, window, None, now)
                    = [found |-> RecordedWithin(hub[kind], window, now) # {},
                       err |-> ""]
            /\ \A name \in AskedNames :
                  got_message(hub, ENSURE_DISPLAY, window, Some(name), now)
                    = [found |->
                          \E k \in RecordedWithin(hub[ENSURE_DISPLAY], window, now) :
                              /\ hub[ENSURE_DISPLAY][k].message # <<>>
                              /\ KeyBefore(hub[ENSURE_DISPLAY][k].message) = name,
                       err |-> ""]

\* A hub holds, within two seconds, an ENSURE_DISPLAY entry with an empty
\* payload followed by one with the key x, and an entry of another kind:
\* got_message is True for x and False for another return name.
C31_Witness ==
    \E i \in Ids :
        LET hub == st[i].message_hub
            recent == NewerThan(hub[ENSURE_DISPLAY], now - 2)
        IN  /\ Len(recent) >= 2
            /\ recent[1].message = <<>>
            /\ recent[2].message # <<>>
            /\ \E kind \in MessageType \ {ENSURE_DISPLAY} : hub[kind] # <<>>
            /\ got_message(hub, ENSURE_DISPLAY, 2, Some(NameX), now).found
            /\ ~got_message(hub, ENSURE_DISPLAY, 2, Some(LobbyKey(7)), now).found

-----------------------------------------------------------------------------
(* C32 *)

\* The newcomer 1 has joined the master 2.
Joined ==
    /\ st[1].master_instance = Some(2)
    /\ {1, 2} \subseteq st[1].alive_instances
    /\ st[1].initialized
    /\ ~st[1].im_master
    /\ 1 \in st[2].alive_instances

\* C32: when instance 1 boots while instance 2 is the one master, and every
\* envelope between them is delivered within the second it is posted, then
\* from some moment on instance 1 points at 2 as master, holds both ids in
\* alive_instances, is initialized and is not master, and 2 holds 1 in its
\* alive_instances; and instance 1 never broadcasts LET_MASTER.
C32_JoinsMaster ==
    /\ <>[]Joined
    /\ [](\A k \in 1..Len(chan) :
              ~(chan[k].from_id = 1 /\ chan[k].message_type = LET_MASTER))

-----------------------------------------------------------------------------
(* C33 *)

\* C33: in every reachable state, an instance with im_master = True has its
\* own id as master_instance.
C33_MasterPointsAtSelf ==
    \A i \in Ids : st[i].im_master => st[i].master_instance = Some(i)

-----------------------------------------------------------------------------
(* C34 *)

\* C34: in every reachable state of an instance, master_instance is None or
\* an element of alive_instances.
C34_MasterIsMember ==
    \A i \in Ids :
        st[i].master_instance = None
            \/ st[i].master_instance[1] \in st[i].alive_instances

-----------------------------------------------------------------------------
(* C35 *)

\* C35: in every step in which an instance posts an ENSURE_DISPLAY envelope,
\* that instance has im_master = True when it posts it; a call that was
\* demoted while it awaited its action posts none.
C35_BroadcastByMaster ==
    [][\A k \in (Len(chan) + 1)..Len(chan') :
            chan'[k].message_type = ENSURE_DISPLAY =>
                st[chan'[k].from_id].im_master]_vars

-----------------------------------------------------------------------------
(* C36 *)

\* Instance i has posted a LET_MASTER.
AnnouncedBy(i) ==
    \E k \in 1..Len(chan) :
        chan[k].from_id = i /\ chan[k].message_type = LET_MASTER

-----------------------------------------------------------------------------
(* C37 *)

\* What instance i does with the command `update <m>`.
AfterUpdate(i, m) == update(i, st[i], m)

\* Instance i promotes itself when it handles `update <m>`.
PromotesOnUpdate(i, m) ==
    \E k \in 1..Len(AfterUpdate(i, m).out) :
        AfterUpdate(i, m).out[k] = LetMasterOf(i)

\* C37: in every reachable state, a connected instance that handles
\* `update <m>` for another instance m that is its master_instance raises
\* nothing, is left without m in alive_instances and without m as
\* master_instance, and promotes itself exactly when its id is the largest
\* remaining member; of the connected instances that point at m and hold
\* the same alive_instances, at most one promotes itself, and exactly one
\* when the largest remaining member is one of them.
C37_UpdateOfMaster ==
    \A m \in Peers :
        LET pointing == {i \in Up \ {m} : st[i].master_instance = Some(m)}
        IN  /\ \A i \in pointing :
                  LET r == AfterUpdate(i, m)
                      rest == st[i].alive_instances \ {m}
                  IN  /\ r.err = ""
                      /\ r.s.alive_instances = rest \cup (IF PromotesOnUpdate(i, m) THEN {i} ELSE {})
                      /\ r.s.master_instance # Some(m)
                      /\ PromotesOnUpdate(i, m) <=> (rest # {} /\ i = Max(rest))
            /\ \A i, j \in pointing :
                  (st[i].alive_instances = st[j].alive_instances
                     /\ PromotesOnUpdate(i, m) /\ PromotesOnUpdate(j, m)) => i = j

-----------------------------------------------------------------------------
(* C38 *)

\* C38: in every reachable state, every entry of the callbacks list of an
\* instance is a callback whose sleep is not over and that has not been
\* cancelled.
C38_OnlyLiveCallbacks ==
    \A i \in Ids : \A k \in 1..Len(st[i].callbacks) :
        st[i].callbacks[k].state = "pending"

-----------------------------------------------------------------------------
(* C39 *)

\* The list a task of instance i read in update_ib_lobbies and is about to
\* publish from is still the tracked list.
SnapshotCurrent(i, task) ==
    lobby[i].pc[task] = "query" =>
        lobby[i].prev[task] = st[i].globals[OPEN_LOBBIES].items

\* C39: while a periodic or manual refresh is suspended inside its locked
\* section, between reading the tracked open-lobby list and publishing, the
\* tracked list is not replaced: the list the refresh read is the tracked
\* list, whatever SEND_WORKSPACE envelope the instance handled meanwhile.
C39_ListReplacedUnderLock ==
    \A i \in Ids, task \in Tasks : proc[i] = "up" => SnapshotCurrent(i, task)

-----------------------------------------------------------------------------
(* C40 *)

\* A callback of instance i is due: its sleep is over and it is about to run.
CallbackDue(i) ==
    \E k \in 1..Len(st[i].callbacks) :
        /\ st[i].callbacks[k].state = "pending"
        /\ st[i].callbacks[k].func = "ensure_display_backup"
        /\ st[i].callbacks[k].due <= now

\* What the branch of ensure_display_backup guarded by is_master_timeout
\* does on instance i, were the flag set when the callback runs.
DrainOf(i) == Failover(i, [st[i] EXCEPT !.is_master_timeout = TRUE], now)

====
